---- MODULE Spec2Model ----
(***************************************************************************)
(* Model of the submission grading engine of the SQL practice platform:    *)
(* backend/services/grading_service.py (load_problem_with_answer,          *)
(* compare_results, grade_submission, save_submission).                    *)
(*                                                                         *)
(* The specifications of the module:                                      *)
(*   SpecCompare  compare_results as a pure function: Init draws the two   *)
(*                result tables from a bounded set, one action applies it. *)
(*   SpecCompareLabels  the same on tables whose column labels may repeat. *)
(*   SpecConcurrent  two grade_submission calls interleaved.               *)
(*   SpecScheduler   backend/scheduler.py: the startup run and the cron    *)
(*                   run of the daily problem generation.                  *)
(*   SpecPipeline    scripts/run_daily.py: sequential runs of              *)
(*                   run_daily_pipeline.                                   *)
(*   SpecPractice    backend/api/practice.py: one submit_practice request. *)
(*   Spec         one grade_submission call, statement by statement, with  *)
(*                the problem file, the SQL executor, the persistence      *)
(*                store and the wall clock as its environment.             *)
(*                                                                         *)
(* The user-facing message texts of the source are Korean; the model names *)
(* each message by an ASCII tag and keeps the values interpolated into it. *)
(***************************************************************************)
EXTENDS Integers, Sequences, FiniteSets, TLC

VARIABLES
    \* ---- compare_results harness (SpecCompare)
    cmp_user,       \* argument user_df
    cmp_answer,     \* argument answer_df
    cmp_ret,        \* the returned (equal, reason) pair
    cmp_done,       \* TRUE once compare_results has returned
    cmp_user_after, \* user_df as the caller sees it after the call
    cmp_answer_after,
    cmp_raised,     \* TRUE when an exception left the call
    cmp_again,      \* what a second call on the same two frames returned
    cmp_rev,        \* what the call with the two arguments exchanged returned
    \* ---- environment of grade_submission (Spec)
    now,            \* time.time(), in seconds
    today,          \* date.today(), as a day number
    submissions,    \* the <data_type>_submissions tables: table name -> rows inserted
    \* ---- one grade_submission call: arguments, locals, position, result
    pc,             \* statement the call is at
    problem_id,     \* argument
    sql,            \* argument
    data_type,      \* argument
    start,          \* local: time.time() at entry
    session_date,   \* local: date.today() at entry
    lookup_path,    \* the file path load_problem_with_answer built
    problem,        \* local: Optional[dict], <<>> for None
    answer_sql,     \* local: the problem's answer_sql
    user_df,        \* local
    answer_df,      \* local
    is_correct,     \* local
    feedback,       \* local
    exc,            \* the exception bound to e in the handler, <<>> while none
    ret,            \* the SubmitResponse returned
    held,           \* the postgres connections the call holds, named by their with block
    \* ---- observation of the call (history)
    raised_at,      \* time.time() when the exception was raised
    raised_in,      \* the statement that raised it, "" while none
    measured_at,    \* time.time() when elapsed was taken
    answer_execs,   \* executions of the reference SQL
    compare_calls,  \* calls of compare_results
    saved,          \* the (is_correct, feedback) arguments of each save_submission call
    \* ---- two grade_submission calls in progress at once (SpecConcurrent)
    con_file,       \* the day's problem file of each data type
    con_db,         \* the table the store yields for the well-formed query
    con_args,       \* call -> its arguments
    con_pc,         \* call -> the statement it is at
    con_locals,     \* storage slot -> the local variables kept there
    con_ret,        \* call -> the SubmitResponse it returned
    \* ---- backend/scheduler.py: start_scheduler and the daily job (SpecScheduler)
    sch_day,        \* date.today(), as a day number
    sch_pc,         \* run -> the statement run_daily_problem_generation is at
    sch_today,      \* run -> its local today
    sch_pa_files,   \* days whose problems/daily/<day>.json exists
    sch_stream_files, \* days whose problems/daily/stream_<day>.json exists
    sch_pa_invoked, \* day -> calls of the PA generator made for it
    sch_pa_written, \* day -> PA problem files written for it
    \* ---- scripts/run_daily.py: sequential runs of run_daily_pipeline (SpecPipeline)
    pipe_day,       \* date.today(), as a day number
    pipe_pc,        \* the statement the run is at, "idle" between runs
    pipe_today,     \* local today
    pipe_problem_path, \* local problem_path: <<>> is None, <<d>> the path of day d's file
    pipe_sessions,  \* the rows of daily_sessions, in insertion order
    pipe_files,     \* the days whose problems/daily/<day>.json exists
    pipe_runs,      \* runs started so far
    pipe_run,       \* what the current (or last) run has done
    \* ---- backend/api/practice.py: one submit_practice request (SpecPractice)
    prac_pc,        \* the statement the handler is at
    prac_request,   \* the SubmitPracticeRequest
    prac_expected,  \* local expected_result
    prac_user,      \* local user_result
    prac_executed,  \* the SQL texts handed to grader.execute_sql, in order
    prac_ret        \* the response returned

cmpVars == <<cmp_user, cmp_answer, cmp_ret, cmp_done, cmp_user_after, cmp_answer_after,
             cmp_raised, cmp_again, cmp_rev>>

(***************************************************************************)
(* Bounds of the input space.                                              *)
(***************************************************************************)
\* A table holds at most MaxCells cells (rows x columns).
MaxCells == 5

\* The same bound for the tables whose column labels may repeat and whose
\* cells are integers or floats.
MaxLabelCells == 4

\* Column names a result can carry; "A" and "a" differ only in case.
Names == {"a", "A", "b"}

\* Column labels that are not str (the integer 0, None): a frame built
\* without column names carries them, a query result does not.
NonStrLabels == {"int:0", "None"}

\* Cell values: the numbers 1 and 2, held as integers or as floats according
\* to the dtype of their column (1 and 1.0 are the same number).
Values == {1, 2}

\* Column dtypes of a numeric query result.
NumericDtypes == {"int64", "float64"}

(***************************************************************************)
(* Strings: str.lower() and the order sorted() puts lower-cased names in.  *)
(***************************************************************************)
Lower(c) == CASE c = "A" -> "a"
              [] c = "B" -> "b"
              [] OTHER   -> c

\* Position of a lower-cased name in Python's string order.
NameRank(c) == CASE c = "a" -> 1
                 [] c = "b" -> 2
                 [] OTHER   -> 0

NameLess(c, d) == NameRank(c) < NameRank(d)

(***************************************************************************)
(* pandas.DataFrame: column labels, row index labels, rows (each row a     *)
(* tuple of cells aligned with the column labels).                         *)
(***************************************************************************)
RangeIndex(n) == [i \in 1..n |-> i - 1]

\* A frame built from the records of a query result: labels, one dtype per
\* column, the default index.
TypedFrame(cols, dtypes, rows) ==
    [columns |-> cols, dtypes |-> dtypes, index |-> RangeIndex(Len(rows)), rows |-> rows]

\* The dtypes of a frame whose columns are all of the type t; the columns of
\* a frame without rows are of dtype object.
UniformDtypes(cols, rows, t) == [i \in 1..Len(cols) |-> IF rows = <<>> THEN "object" ELSE t]

\* A frame of integer columns.
DataFrame(cols, rows) == TypedFrame(cols, UniformDtypes(cols, rows, "int64"), rows)

\* A name that is not bound to a result yet.
NoFrame == DataFrame(<<>>, <<>>)

IsInjective(s) == \A i, j \in 1..Len(s) : s[i] = s[j] => i = j

\* Column lists of a query result: one or more distinct labels.
ColumnLists == {cs \in UNION {[1..n -> Names] : n \in 1..Cardinality(Names)} : IsInjective(cs)}

RowLists(c) == UNION {[1..r -> [1..c -> Values]] : r \in 0..(MaxCells \div c)}

\* The tables of integer cells whose labels are distinct, within the bounds:
\* the results whose records map each column name to one value.
Tables == UNION {{DataFrame(cs, rs) : rs \in RowLists(Len(cs))} : cs \in ColumnLists}

\* Column lists of any SELECT: a label may repeat (SELECT a, a FROM t).
LabelLists == UNION {[1..n -> Names] : n \in 1..Cardinality(Names)}

LabelRowLists(c) == UNION {[1..r -> [1..c -> Values]] : r \in 0..(MaxLabelCells \div c)}

\* The tables an executor call can hand to compare_results within the bounds:
\* labels may repeat, and the columns of a table are integers or floats.
LabelTables ==
    UNION {{TypedFrame(cs, UniformDtypes(cs, rs, t), rs) :
                rs \in LabelRowLists(Len(cs)), t \in NumericDtypes} : cs \in LabelLists}

\* len(df.columns), len(df)
NumColumns(df) == Len(df.columns)
NumRows(df) == Len(df.rows)

\* set(c.lower() for c in df.columns)
LowerColumnSet(df) == {Lower(df.columns[i]) : i \in 1..Len(df.columns)}

\* Positions of the columns carrying a label, left to right.
RECURSIVE PositionsFrom(_, _, _)
PositionsFrom(cols, label, i) ==
    IF i > Len(cols) THEN <<>>
    ELSE (IF cols[i] = label THEN <<i>> ELSE <<>>) \o PositionsFrom(cols, label, i + 1)

Positions(cols, label) == PositionsFrom(cols, label, 1)

(***************************************************************************)
(* DataFrame.sort_values(by=labels): ascending, lexicographic over the     *)
(* `by` columns in the order given; each row keeps its index label.        *)
(***************************************************************************)
\* A label names exactly one column, else sort_values raises ValueError.
SortRaises(df, by) == \E k \in 1..Len(by) : Len(Positions(df.columns, by[k])) # 1

RECURSIVE RowLessFrom(_, _, _, _)
RowLessFrom(r1, r2, keys, k) ==
    IF k > Len(keys) THEN FALSE
    ELSE IF r1[keys[k]] < r2[keys[k]] THEN TRUE
    ELSE IF r1[keys[k]] > r2[keys[k]] THEN FALSE
    ELSE RowLessFrom(r1, r2, keys, k + 1)

\* r1 sorts strictly before r2 under the key positions.
RowLess(r1, r2, keys) == RowLessFrom(r1, r2, keys, 1)

\* Insert position p into the sorted position list `sorted`, after its equals.
RECURSIVE InsertPos(_, _, _, _)
InsertPos(p, sorted, rows, keys) ==
    IF sorted = <<>> THEN <<p>>
    ELSE IF RowLess(rows[p], rows[Head(sorted)], keys) THEN <<p>> \o sorted
    ELSE <<Head(sorted)>> \o InsertPos(p, Tail(sorted), rows, keys)

RECURSIVE SortedPositions(_, _, _)
SortedPositions(rows, keys, n) ==
    IF n = 0 THEN <<>>
    ELSE InsertPos(n, SortedPositions(rows, keys, n - 1), rows, keys)

\* by = list(df.columns): the frame's own column order.
SortKeys(df, by) == [k \in 1..Len(by) |-> Positions(df.columns, by[k])[1]]

SortValues(df, by) ==
    LET perm == SortedPositions(df.rows, SortKeys(df, by), Len(df.rows))
    IN  [columns |-> df.columns,
         dtypes  |-> df.dtypes,
         index   |-> [i \in 1..Len(perm) |-> df.index[perm[i]]],
         rows    |-> [i \in 1..Len(perm) |-> df.rows[perm[i]]]]

\* The sorted frame with the index labels its rows came with.
ResetIndexKept(df) == df

\* DataFrame.reset_index(drop=True)
ResetIndex(df) == [df EXCEPT !.index = RangeIndex(Len(df.rows))]

\* df.columns = [c.lower() for c in df.columns]
LowerColumns(df) == [df EXCEPT !.columns = [i \in 1..Len(df.columns) |-> Lower(df.columns[i])]]

\* sorted(df.columns) on lower-cased labels (duplicates kept).
RECURSIVE InsertName(_, _)
InsertName(c, sorted) ==
    IF sorted = <<>> THEN <<c>>
    ELSE IF NameLess(c, Head(sorted)) THEN <<c>> \o sorted
    ELSE <<Head(sorted)>> \o InsertName(c, Tail(sorted))

RECURSIVE SortedNames(_)
SortedNames(cols) ==
    IF cols = <<>> THEN <<>>
    ELSE InsertName(cols[Len(cols)], SortedNames(SubSeq(cols, 1, Len(cols) - 1)))

\* df[labels]: for each label in turn, every column carrying it.
RECURSIVE SelectPositions(_, _)
SelectPositions(cols, labels) ==
    IF labels = <<>> THEN <<>>
    ELSE Positions(cols, Head(labels)) \o SelectPositions(cols, Tail(labels))

\* A selection that reorders the labels and leaves the cells where they were.
SelectColumnsLabelsOnly(df, labels) ==
    LET pos == SelectPositions(df.columns, labels)
    IN  [columns |-> [k \in 1..Len(pos) |-> df.columns[pos[k]]],
         dtypes  |-> [k \in 1..Len(pos) |-> df.dtypes[pos[k]]],
         index   |-> df.index,
         rows    |-> df.rows]

SelectColumns(df, labels) ==
    LET pos == SelectPositions(df.columns, labels)
    IN  [columns |-> [k \in 1..Len(pos) |-> df.columns[pos[k]]],
         dtypes  |-> [k \in 1..Len(pos) |-> df.dtypes[pos[k]]],
         index   |-> df.index,
         rows    |-> [i \in 1..Len(df.rows) |-> [k \in 1..Len(pos) |-> df.rows[i][pos[k]]]]]

\* A comparison of labels and index that never looks at the cells.
EqualsLabelsAndIndex(df1, df2) ==
    /\ df1.columns = df2.columns
    /\ df1.index = df2.index

\* DataFrame.equals: same labels, same index, the same dtype in each column
\* (an int64 column and a float64 column are unequal whatever they hold),
\* same cells.
Equals(df1, df2) ==
    /\ df1.columns = df2.columns
    /\ df1.index = df2.index
    /\ df1.dtypes = df2.dtypes
    /\ df1.rows = df2.rows

(***************************************************************************)
(* compare_results                                                         *)
(***************************************************************************)
\* "column count differs (submitted: u, answer: a)"
ReasonColumnCount(u, a) == [msg |-> "column_count_differs", submitted |-> u, answer |-> a]
\* The row-count message with the two counts exchanged.
ReasonRowCountSwapped(u, a) == [msg |-> "row_count_differs", submitted |-> a, answer |-> u]

\* "row count differs (submitted: u, answer: a)"
ReasonRowCount(u, a) == [msg |-> "row_count_differs", submitted |-> u, answer |-> a]
\* The column-name message with the two name sets exchanged.
ReasonColumnNamesSwapped(missing, extra) ==
    [msg |-> "column_names_differ", missing |-> extra, extra |-> missing]

\* "column names differ" + " missing: {..}" if any + " extra: {..}" if any
ReasonColumnNames(missing, extra) == [msg |-> "column_names_differ", missing |-> missing, extra |-> extra]
\* "correct!"
ReasonCorrect == [msg |-> "correct"]
\* The success text returned with a failed value comparison.
ReasonValuesDifferAsCorrect == [msg |-> "correct"]

\* "result values differ"
ReasonValuesDiffer == [msg |-> "values_differ"]
\* "comparison error: <exception text>"
ReasonCompareError(e) == [msg |-> "compare_error", error |-> e]

\* Text of the ValueError sort_values raises for an ambiguous label.
ErrLabelNotUnique == "label_not_unique"

\* The frame compared in the end: sorted by its own columns, index reset,
\* labels lower-cased, columns reordered by sorted label.
Normalized(df) ==
    LET sorted  == ResetIndex(SortValues(df, df.columns))
        lowered == LowerColumns(sorted)
    IN  SelectColumns(lowered, SortedNames(lowered.columns))

\* The count checks and the name-set check passed: control is inside the try.
ReachesValueComparison(udf, adf) ==
    /\ NumColumns(udf) = NumColumns(adf)
    /\ NumRows(udf) = NumRows(adf)
    /\ LowerColumnSet(udf) = LowerColumnSet(adf)

\* One of the two sort_values calls raises.
ValueComparisonRaises(udf, adf) ==
    SortRaises(udf, udf.columns) \/ SortRaises(adf, adf.columns)

\* compare_results without the try: an exception of the sort leaves the call.
compare_results_raises_uncaught(udf, adf) ==
    ReachesValueComparison(udf, adf) /\ ValueComparisonRaises(udf, adf)

\* TRUE when an exception leaves compare_results. The sort, the selection and
\* equals are the body of the try, and `except Exception` returns for each;
\* c.lower() at lines 46-47 is outside it and raises AttributeError on a label
\* that is not a str, once both count checks have passed.
compare_results_raises(udf, adf) ==
    /\ NumColumns(udf) = NumColumns(adf)
    /\ NumRows(udf) = NumRows(adf)
    /\ \/ \E i \in 1..Len(udf.columns) : udf.columns[i] \in NonStrLabels
       \/ \E i \in 1..Len(adf.columns) : adf.columns[i] \in NonStrLabels

\* A sort made in place: the name is bound to the argument itself.
SortedInPlace(arg, fresh) == arg

\* Lines 60-61: the object the name user_sorted (answer_sorted) is bound to.
\* sort_values and reset_index are called without inplace and return a new
\* frame each; `arg` is the object sorted, `fresh` the object returned.
SortedCopy(arg, fresh) == fresh

\* The objects of one call, each with the frame it holds: the caller's two
\* frames and the two frames the names user_sorted and answer_sorted get.
ObjectsAtCall(udf, adf) ==
    [user_df |-> udf, answer_df |-> adf, user_sorted |-> NoFrame, answer_sorted |-> NoFrame]

\* The objects when the call has ended, statement by statement. A return or a
\* raise before line 60 touches none; line 60 stores the sorted, re-indexed
\* user frame in the object user_sorted is bound to, line 61 does so for
\* the answer (a raise of either ends the try there); lines 64-65 assign the
\* lower-cased labels to those objects; lines 66-67 bind the names to the new
\* frames the selection returns, which changes no object.
ObjectsAfterCall(udf, adf) ==
    LET at_call == ObjectsAtCall(udf, adf)
        u       == SortedCopy("user_df", "user_sorted")
        a       == SortedCopy("answer_df", "answer_sorted")
        line60  == [o \in DOMAIN at_call |->
                        IF o = u
                        THEN ResetIndex(SortValues(at_call["user_df"], at_call["user_df"].columns))
                        ELSE at_call[o]]
        line61  == [o \in DOMAIN at_call |->
                        IF o = a
                        THEN ResetIndex(SortValues(line60["answer_df"], line60["answer_df"].columns))
                        ELSE line60[o]]
        line64  == [o \in DOMAIN at_call |-> IF o = u THEN LowerColumns(line61[o]) ELSE line61[o]]
        line65  == [o \in DOMAIN at_call |-> IF o = a THEN LowerColumns(line64[o]) ELSE line64[o]]
    IN  IF compare_results_raises(udf, adf) \/ ~ReachesValueComparison(udf, adf)
        THEN at_call
        ELSE IF SortRaises(udf, udf.columns) THEN at_call
        ELSE IF SortRaises(line60["answer_df"], line60["answer_df"].columns) THEN line60
        ELSE line65

\* compare_results with the reference frame left in the order it came in.
compare_results_answer_unsorted(udf, adf) ==
    IF NumColumns(udf) # NumColumns(adf)
    THEN [equal |-> FALSE, reason |-> ReasonColumnCount(NumColumns(udf), NumColumns(adf))]
    ELSE IF NumRows(udf) # NumRows(adf)
    THEN [equal |-> FALSE, reason |-> ReasonRowCount(NumRows(udf), NumRows(adf))]
    ELSE IF LowerColumnSet(udf) # LowerColumnSet(adf)
    THEN [equal |-> FALSE,
          reason |-> ReasonColumnNames(LowerColumnSet(adf) \ LowerColumnSet(udf),
                                       LowerColumnSet(udf) \ LowerColumnSet(adf))]
    ELSE IF ValueComparisonRaises(udf, adf)
    THEN [equal |-> FALSE, reason |-> ReasonCompareError(ErrLabelNotUnique)]
    ELSE IF Equals(Normalized(udf),
                   SelectColumns(LowerColumns(adf), SortedNames(LowerColumns(adf).columns)))
    THEN [equal |-> TRUE, reason |-> ReasonCorrect]
    ELSE [equal |-> FALSE, reason |-> ReasonValuesDiffer]

\* compare_results with the row-count check moved ahead of the column-count check.
compare_results_rows_first(udf, adf) ==
    IF NumRows(udf) # NumRows(adf)
    THEN [equal |-> FALSE, reason |-> ReasonRowCount(NumRows(udf), NumRows(adf))]
    ELSE IF NumColumns(udf) # NumColumns(adf)
    THEN [equal |-> FALSE, reason |-> ReasonColumnCount(NumColumns(udf), NumColumns(adf))]
    ELSE IF LowerColumnSet(udf) # LowerColumnSet(adf)
    THEN [equal |-> FALSE,
          reason |-> ReasonColumnNames(LowerColumnSet(adf) \ LowerColumnSet(udf),
                                       LowerColumnSet(udf) \ LowerColumnSet(adf))]
    ELSE IF Equals(Normalized(udf), Normalized(adf))
    THEN [equal |-> TRUE, reason |-> ReasonCorrect]
    ELSE [equal |-> FALSE, reason |-> ReasonValuesDiffer]

compare_results(udf, adf) ==
    IF NumColumns(udf) # NumColumns(adf)
    THEN [equal |-> FALSE, reason |-> ReasonColumnCount(NumColumns(udf), NumColumns(adf))]
    ELSE IF NumRows(udf) # NumRows(adf)
    THEN [equal |-> FALSE, reason |-> ReasonRowCount(NumRows(udf), NumRows(adf))]
    ELSE LET user_cols   == LowerColumnSet(udf)
             answer_cols == LowerColumnSet(adf)
         IN  IF user_cols # answer_cols
             THEN [equal |-> FALSE,
                   reason |-> ReasonColumnNames(answer_cols \ user_cols, user_cols \ answer_cols)]
             ELSE IF SortRaises(udf, udf.columns) \/ SortRaises(adf, adf.columns)
             THEN [equal |-> FALSE, reason |-> ReasonCompareError(ErrLabelNotUnique)]
             ELSE IF Equals(Normalized(udf), Normalized(adf))
             THEN [equal |-> TRUE, reason |-> ReasonCorrect]
             ELSE [equal |-> FALSE, reason |-> ReasonValuesDiffer]

(***************************************************************************)
(* grade_submission and its environment.                                   *)
(***************************************************************************)
gradeVars == <<now, today, submissions, pc, problem_id, sql, data_type, start,
               session_date, lookup_path, problem, answer_sql, user_df, answer_df,
               is_correct, feedback, exc, ret, raised_at, raised_in, measured_at,
               answer_execs, compare_calls, saved, held>>

conVars == <<con_file, con_db, con_args, con_pc, con_locals, con_ret>>

schVars == <<sch_day, sch_pc, sch_today, sch_pa_files, sch_stream_files,
             sch_pa_invoked, sch_pa_written>>

pipeVars == <<pipe_day, pipe_pc, pipe_today, pipe_problem_path, pipe_sessions,
              pipe_files, pipe_runs, pipe_run>>

pracVars == <<prac_pc, prac_request, prac_expected, prac_user, prac_executed, prac_ret>>

jobVars == <<schVars, pipeVars, pracVars>>

vars == <<cmpVars, gradeVars, conVars, jobVars>>

\* The clock advances by at most MaxTick seconds while one statement runs.
MaxTick == 1
\* Days the calendar can reach.
MaxDay == 2

\* elapsed = (time.time() - start) * 1000
MsPerSecond == 1000

ProblemIds == {"p1", "p2"}
DataTypes == {"pa", "stream"}

(***************************************************************************)
(* SQL text: a sequence of tokens, " " for white space, ";" for a          *)
(* semicolon, "SELECT" for a well-formed read-only query, "SELEC" for      *)
(* text the engine rejects.                                                *)
(***************************************************************************)
SqlTexts == {<<"SELECT">>, <<" ", "SELECT", ";", " ">>, <<"SELEC">>}

\* str.strip(): leading and trailing white space removed.
RECURSIVE LStrip(_)
LStrip(s) == IF s # <<>> /\ Head(s) = " " THEN LStrip(Tail(s)) ELSE s

\* str.rstrip(ch)
RECURSIVE RStrip(_, _)
RStrip(s, ch) ==
    IF s # <<>> /\ s[Len(s)] = ch THEN RStrip(SubSeq(s, 1, Len(s) - 1), ch) ELSE s

Strip(s) == RStrip(LStrip(s), " ")

\* text.strip().rstrip(";"): the statement handed to fetch_df.
Statement(text) == RStrip(Strip(text), ";")

(***************************************************************************)
(* The SQL executor (postgres_connection().fetch_df): a statement either   *)
(* yields a table or raises. The tables a query can yield are drawn from   *)
(* ResultTables; what the store holds is not fixed by the caller.          *)
(***************************************************************************)
ResultTables == {DataFrame(<<"a">>, <<>>),
                 DataFrame(<<"a">>, <<<<1>>>>),
                 DataFrame(<<"a">>, <<<<1>>, <<2>>>>),
                 DataFrame(<<"A">>, <<<<2>>, <<1>>>>)}

ErrSyntax == "syntax_error"
ErrConnection == "connection_error"
\* str(e) of an AttributeError: answer_sql.strip() on a non-string, c.lower()
\* on a column label that is not a str.
ErrAttribute == "attribute_error"
ErrInsert == "insert_error"

Fetched(df) == [ok |-> TRUE, df |-> df]
Raised(e) == [ok |-> FALSE, error |-> e]

\* The statement is one well-formed query (white space around it is ignored).
IsQuery(stmt) == SelectSeq(stmt, LAMBDA t : t # " ") = <<"SELECT">>

\* Every outcome of pg.fetch_df(stmt) on an acquired connection.
FetchOutcomes(stmt) ==
    IF IsQuery(stmt)
    THEN {Fetched(t) : t \in ResultTables} \cup {Raised(ErrConnection)}
    ELSE {Raised(ErrSyntax), Raised(ErrConnection)}

(***************************************************************************)
(* The day's problem file and load_problem_with_answer.                    *)
(***************************************************************************)
\* A problem's answer_sql as read from JSON: absent or null (None), a string,
\* or some other truthy JSON value.
NoneValue == [kind |-> "none"]
StrValue(text) == [kind |-> "str", text |-> text]
OtherValue == [kind |-> "other"]

AnswerValues == {NoneValue, OtherValue, StrValue(<<>>), StrValue(<<" ">>),
                 StrValue(<<"SELECT", ";">>), StrValue(<<"SELEC">>)}

Problems == [problem_id : ProblemIds, answer_sql : AnswerValues]

\* A file: in a directory that cannot be searched (path.exists() raises
\* PermissionError), absent, present but not parseable as a list of
\* problems, or a list.
ProblemFiles ==
    {[denied |-> TRUE, exists |-> FALSE, readable |-> FALSE, problems |-> <<>>],
     [denied |-> FALSE, exists |-> FALSE, readable |-> FALSE, problems |-> <<>>],
     [denied |-> FALSE, exists |-> TRUE, readable |-> FALSE, problems |-> <<>>]}
    \cup {[denied |-> FALSE, exists |-> TRUE, readable |-> TRUE, problems |-> ps] :
            ps \in UNION {[1..n -> Problems] : n \in 0..2}}

\* problems/stream_daily/<today>.json or problems/daily/<today>.json
ProblemPath(dt, day) ==
    IF dt = "stream" THEN <<"problems/stream_daily", day>> ELSE <<"problems/daily", day>>

\* The first problem of the list with the given id, or None.
RECURSIVE FirstMatch(_, _)
FirstMatch(ps, pid) ==
    IF ps = <<>> THEN <<>>
    ELSE IF Head(ps).problem_id = pid THEN <<Head(ps)>>
    ELSE FirstMatch(Tail(ps), pid)

\* The call returns an Optional[dict] (as a sequence: <<>> is None, <<p>> the
\* problem found) or raises: line 22 is outside the try of lines 25-32, so
\* an OSError of path.exists() leaves the function.
load_problem_with_answer(pid, file) ==
    IF file.denied THEN Raised("permission_error")
    ELSE IF ~file.exists THEN [ok |-> TRUE, problem |-> <<>>]
    ELSE IF ~file.readable THEN [ok |-> TRUE, problem |-> <<>>]
    ELSE [ok |-> TRUE, problem |-> FirstMatch(file.problems, pid)]

\* problem.get("answer_sql") if problem else None
AnswerSqlOf(p) == IF p # <<>> THEN p[1].answer_sql ELSE NoneValue

\* Python truth value of answer_sql.
Truthy(v) == \/ v.kind = "other"
             \/ (v.kind = "str" /\ v.text # <<>>)

(***************************************************************************)
(* save_submission                                                         *)
(***************************************************************************)
TableNames == {"pa_submissions", "stream_submissions"}

\* table = f"{data_type}_submissions"
TableName(dt) == dt \o "_submissions"

\* The row with the correctness flag not taken from the argument.
SubmissionRowFlagLost(sd, pid, text, correct, fb, at) ==
    [session_date |-> sd, problem_id |-> pid, sql_text |-> text,
     is_correct |-> TRUE, feedback |-> fb, submitted_at |-> at]

SubmissionRow(sd, pid, text, correct, fb, at) ==
    [session_date |-> sd, problem_id |-> pid, sql_text |-> text,
     is_correct |-> correct, feedback |-> fb, submitted_at |-> at]

\* save_submission lets the failure of the insert escape to its caller.
SaveSubmissionPropagates(insert_ok) == ~insert_ok

\* Whether save_submission raises: `except Exception: pass` absorbs the insert's failure.
SaveSubmissionRaises(insert_ok) == FALSE

\* The store after save_submission: the row is there iff the insert went through.
Inserted(store, dt, row, insert_ok) ==
    IF insert_ok THEN [store EXCEPT ![TableName(dt)] = Append(@, row)] ELSE store

(***************************************************************************)
(* Messages and the response of grade_submission.                          *)
(***************************************************************************)
\* "no result"
FeedbackNoResult == [msg |-> "no_result"]
\* The error feedback without the exception's text.
FeedbackExecErrorNoText(e) == [msg |-> "sql_execution_error", error |-> ""]

\* f"SQL execution error: {str(e)}"
FeedbackExecError(e) == [msg |-> "sql_execution_error", error |-> e]

\* A response whose diff is left at its default, None.
SubmitResponseDiffDropped(correct, fb, ms, diff) ==
    [is_correct |-> correct, feedback |-> fb, execution_time_ms |-> ms, diff |-> <<>>]

\* Optional[str]: <<>> is None.
SubmitResponse(correct, fb, ms, diff) ==
    [is_correct |-> correct, feedback |-> fb, execution_time_ms |-> ms, diff |-> diff]

\* The fallback verdict when there is no reference SQL.
FallbackCorrect(df) == NumRows(df) > 0
FallbackFeedback(correct) == IF correct THEN ReasonCorrect ELSE FeedbackNoResult

\* execution_time_ms of the response built in the exception handler.
ErrorPathElapsed(t0, t) == 0

\* execution_time_ms on the normal path.
Elapsed(t0, t) == (t - t0) * MsPerSecond

(***************************************************************************)
(* Initial values.                                                         *)
(***************************************************************************)
NoReturn == [equal |-> FALSE, reason |-> [msg |-> "not_returned"]]
NoResponse == SubmitResponse(FALSE, [msg |-> "not_returned"], 0, <<>>)

CompareIdle ==
    /\ cmp_ret = NoReturn
    /\ cmp_done = FALSE
    /\ cmp_user_after = cmp_user
    /\ cmp_answer_after = cmp_answer
    /\ cmp_raised = FALSE
    /\ cmp_again = NoReturn
    /\ cmp_rev = NoReturn

GradeIdle ==
    /\ today = 1
    /\ submissions = [t \in TableNames |-> <<>>]
    /\ pc = "idle"
    /\ problem_id = "p1"
    /\ sql = <<>>
    /\ data_type = "pa"
    /\ start = 0
    /\ session_date = 0
    /\ lookup_path = <<"", 0>>
    /\ problem = <<>>
    /\ answer_sql = NoneValue
    /\ user_df = NoFrame
    /\ answer_df = NoFrame
    /\ is_correct = FALSE
    /\ feedback = [msg |-> "unset"]
    /\ exc = <<>>
    /\ ret = NoResponse
    /\ raised_at = 0
    /\ raised_in = ""
    /\ measured_at = 0
    /\ answer_execs = 0
    /\ compare_calls = 0
    /\ saved = <<>>
    /\ held = {}

\* The two calls of SpecConcurrent.
Calls == {1, 2}

\* The locals of a call before its first statement.
NoLocals == [problem |-> <<>>, answer_sql |-> NoneValue, user_df |-> NoFrame,
             answer_df |-> NoFrame, is_correct |-> FALSE,
             feedback |-> [msg |-> "unset"], exc |-> <<>>]

ConcurrentIdle ==
    /\ con_file = [dt \in DataTypes |-> [exists |-> FALSE, readable |-> FALSE, problems |-> <<>>]]
    /\ con_db = NoFrame
    /\ con_args = [c \in Calls |-> [problem_id |-> "p1", sql |-> <<>>, data_type |-> "pa"]]
    /\ con_pc = [c \in Calls |-> "idle"]
    /\ con_locals = [c \in Calls |-> NoLocals]
    /\ con_ret = [c \in Calls |-> NoResponse]

\* The calendar days of the scheduled jobs.
Days == 1..MaxDay

\* The two runs of run_daily_problem_generation: the one start_scheduler
\* makes itself and the one the cron trigger starts on the scheduler's thread.
Runs == {"startup", "cron"}

SchedulerIdle ==
    /\ sch_day = 1
    /\ sch_pc = [r \in Runs |-> "off"]
    /\ sch_today = [r \in Runs |-> 0]
    /\ sch_pa_files = {}
    /\ sch_stream_files = {}
    /\ sch_pa_invoked = [d \in Days |-> 0]
    /\ sch_pa_written = [d \in Days |-> 0]

\* What a run of run_daily_pipeline has done so far.
NoRunYet == [found |-> FALSE, data_gens |-> 0, problem_gens |-> 0,
             gen_failed |-> FALSE, inserts |-> 0, raised |-> FALSE]

PipelineIdle ==
    /\ pipe_day = 1
    /\ pipe_pc = "idle"
    /\ pipe_today = 0
    /\ pipe_problem_path = <<>>
    /\ pipe_sessions = <<>>
    /\ pipe_files = {}
    /\ pipe_runs = 0
    /\ pipe_run = NoRunYet

\* No request yet: the locals are unbound and nothing is returned.
PracticeIdle ==
    /\ prac_pc = "idle"
    /\ prac_request = [problem_id |-> "p1", sql |-> "q1", answer_sql |-> "q1",
                       difficulty |-> "easy", data_type |-> "pa"]
    /\ prac_expected = [unbound |-> TRUE]
    /\ prac_user = [unbound |-> TRUE]
    /\ prac_executed = <<>>
    /\ prac_ret = [unbound |-> TRUE]

JobsIdle == SchedulerIdle /\ PipelineIdle /\ PracticeIdle

(***************************************************************************)
(* SpecCompare: compare_results applied to every pair of bounded tables.   *)
(***************************************************************************)
InitCompare ==
    /\ cmp_user \in Tables
    /\ cmp_answer \in Tables
    /\ CompareIdle
    /\ now = 0
    /\ GradeIdle
    /\ ConcurrentIdle
    /\ JobsIdle

\* The calls made on one pair of frames: compare_results(cmp_user, cmp_answer),
\* the same call once more on the frames as the first call left them, and the
\* call with the two frames exchanged.
CompareResults ==
    /\ ~cmp_done
    /\ cmp_raised' = compare_results_raises(cmp_user, cmp_answer)
    /\ cmp_ret' = IF cmp_raised' THEN NoReturn ELSE compare_results(cmp_user, cmp_answer)
    /\ cmp_done' = TRUE
    /\ \E objects \in {ObjectsAfterCall(cmp_user, cmp_answer)} :
          /\ cmp_user_after' = objects["user_df"]
          /\ cmp_answer_after' = objects["answer_df"]
    /\ cmp_again' = IF compare_results_raises(cmp_user_after', cmp_answer_after')
                    THEN NoReturn
                    ELSE compare_results(cmp_user_after', cmp_answer_after')
    /\ cmp_rev' = IF compare_results_raises(cmp_answer_after', cmp_user_after')
                  THEN NoReturn
                  ELSE compare_results(cmp_answer_after', cmp_user_after')
    /\ UNCHANGED <<cmp_user, cmp_answer>>
    /\ UNCHANGED gradeVars
    /\ UNCHANGED conVars
    /\ UNCHANGED jobVars

NextCompare == CompareResults

SpecCompare == InitCompare /\ [][NextCompare]_vars

\* SpecCompareLabels: the same calls on tables whose labels may repeat.
InitCompareLabels ==
    /\ cmp_user \in LabelTables
    /\ cmp_answer \in LabelTables
    /\ CompareIdle
    /\ now = 0
    /\ GradeIdle
    /\ ConcurrentIdle
    /\ JobsIdle

SpecCompareLabels == InitCompareLabels /\ [][NextCompare]_vars

(***************************************************************************)
(* Spec: one grade_submission call.                                        *)
(***************************************************************************)
Init ==
    /\ cmp_user = NoFrame
    /\ cmp_answer = NoFrame
    /\ CompareIdle
    /\ now \in 0..MaxTick
    /\ GradeIdle
    /\ ConcurrentIdle
    /\ JobsIdle

\* Time passes while a statement runs.
Elapse == \E d \in 0..MaxTick : now' = now + d

\* Lines 84-85: entry; the arguments are bound, the clock and the date read.
Call ==
    /\ pc = "idle"
    /\ \E pid \in ProblemIds, text \in SqlTexts, dt \in DataTypes :
          /\ problem_id' = pid
          /\ sql' = text
          /\ data_type' = dt
    /\ start' = now
    /\ session_date' = today
    /\ pc' = "load"
    /\ Elapse
    /\ UNCHANGED <<today, submissions, lookup_path, problem, answer_sql, user_df,
                   answer_df, is_correct, feedback, exc, ret, raised_at, raised_in,
                   measured_at, answer_execs, compare_calls, saved>>
    /\ UNCHANGED cmpVars
    /\ UNCHANGED conVars
    /\ UNCHANGED jobVars
    /\ UNCHANGED held

\* The calendar date changes while the call is in progress.
Midnight ==
    /\ pc \notin {"idle", "returned", "raised"}
    /\ today < MaxDay
    /\ today' = today + 1
    /\ UNCHANGED <<now, submissions, pc, problem_id, sql, data_type, start,
                   session_date, lookup_path, problem, answer_sql, user_df,
                   answer_df, is_correct, feedback, exc, ret, raised_at, raised_in,
                   measured_at, answer_execs, compare_calls, saved>>
    /\ UNCHANGED cmpVars
    /\ UNCHANGED conVars
    /\ UNCHANGED jobVars
    /\ UNCHANGED held

\* Lines 89-90 (and 14-32): the problem file of the day is read.
LoadProblem ==
    /\ pc = "load"
    /\ lookup_path' = ProblemPath(data_type, today)
    /\ Elapse
    /\ \E file \in ProblemFiles :
          LET out == load_problem_with_answer(problem_id, file)
          IN  IF out.ok
              THEN /\ problem' = out.problem
                   /\ answer_sql' = AnswerSqlOf(problem')
                   /\ pc' = "exec_user"
                   /\ UNCHANGED <<exc, raised_at, raised_in>>
              ELSE /\ exc' = <<out.error>>
                   /\ raised_at' = now'
                   /\ raised_in' = "lookup"
                   /\ pc' = "except"
                   /\ UNCHANGED <<problem, answer_sql>>
    /\ UNCHANGED <<today, submissions, problem_id, sql, data_type, start,
                   session_date, user_df, answer_df, is_correct, feedback,
                   ret, measured_at, answer_execs, compare_calls, saved>>
    /\ UNCHANGED cmpVars
    /\ UNCHANGED conVars
    /\ UNCHANGED jobVars
    /\ UNCHANGED held

\* The postgres connections named by the with block that opened them.
Connections == {"user_sql", "reference_sql"}

\* postgres_connection().__enter__: the connection is acquired.
Acquired(conns, c) == conns \cup {c}

\* postgres_connection().__exit__: the connection is released.
Released(conns, c) == conns \ {c}

\* A block that releases its connection only when its body ends normally.
ExitRunsOnSuccessOnly(raised) == ~raised

\* `with ... as pg:` runs __exit__ when the body ends, whether it ends
\* normally or by raising.
ExitRuns(raised) == TRUE

\* The connections held once the body of block c has ended.
HeldAfterBlock(conns, c, raised) ==
    IF ExitRuns(raised) THEN Released(conns, c) ELSE conns

\* Line 93: the with block of the submitted SQL is entered.
ConnectUser ==
    /\ pc = "exec_user"
    /\ Elapse
    /\ \E connected \in BOOLEAN :
          IF connected
          THEN /\ held' = Acquired(held, "user_sql")
               /\ pc' = "fetch_user"
               /\ UNCHANGED <<exc, raised_at, raised_in>>
          ELSE /\ exc' = <<ErrConnection>>
               /\ raised_at' = now'
               /\ raised_in' = "user_sql"
               /\ pc' = "except"
               /\ UNCHANGED held
    /\ UNCHANGED <<today, submissions, problem_id, sql, data_type, start,
                   session_date, lookup_path, problem, answer_sql, user_df, answer_df,
                   is_correct, feedback, ret, measured_at, answer_execs,
                   compare_calls, saved>>
    /\ UNCHANGED cmpVars
    /\ UNCHANGED conVars
    /\ UNCHANGED jobVars

\* Line 94 and the end of the block: the submitted SQL is executed.
ExecUser ==
    /\ pc = "fetch_user"
    /\ Elapse
    /\ \E out \in FetchOutcomes(Statement(sql)) :
          /\ held' = HeldAfterBlock(held, "user_sql", ~out.ok)
          /\ IF out.ok
             THEN /\ user_df' = out.df
                  /\ pc' = "grade"
                  /\ UNCHANGED <<exc, raised_at, raised_in>>
             ELSE /\ exc' = <<out.error>>
                  /\ raised_at' = now'
                  /\ raised_in' = "user_sql"
                  /\ pc' = "except"
                  /\ UNCHANGED user_df
    /\ UNCHANGED <<today, submissions, problem_id, sql, data_type, start,
                   session_date, lookup_path, problem, answer_sql, answer_df,
                   is_correct, feedback, ret, measured_at, answer_execs,
                   compare_calls, saved>>
    /\ UNCHANGED cmpVars
    /\ UNCHANGED conVars
    /\ UNCHANGED jobVars

\* Every outcome of line 100 for a truthy answer_sql.
AnswerOutcomes(v) ==
    IF v.kind = "str"
    THEN FetchOutcomes(Statement(v.text))
    ELSE {Raised(ErrAttribute)}

\* Lines 97-99: there is a reference SQL; its with block is entered.
ConnectAnswer ==
    /\ pc = "grade"
    /\ Truthy(answer_sql)
    /\ Elapse
    /\ \E connected \in BOOLEAN :
          IF connected
          THEN /\ held' = Acquired(held, "reference_sql")
               /\ pc' = "fetch_answer"
               /\ UNCHANGED <<exc, raised_at, raised_in>>
          ELSE /\ exc' = <<ErrConnection>>
               /\ raised_at' = now'
               /\ raised_in' = "reference_sql"
               /\ pc' = "except"
               /\ UNCHANGED held
    /\ UNCHANGED <<today, submissions, problem_id, sql, data_type, start,
                   session_date, lookup_path, problem, answer_sql, user_df, answer_df,
                   is_correct, feedback, ret, measured_at, answer_execs,
                   compare_calls, saved>>
    /\ UNCHANGED cmpVars
    /\ UNCHANGED conVars
    /\ UNCHANGED jobVars

\* Line 100 and the end of the block: the reference SQL is executed.
ExecAnswer ==
    /\ pc = "fetch_answer"
    /\ Elapse
    /\ answer_execs' = IF answer_sql.kind = "str" THEN answer_execs + 1 ELSE answer_execs
    /\ \E out \in AnswerOutcomes(answer_sql) :
          /\ held' = HeldAfterBlock(held, "reference_sql", ~out.ok)
          /\ IF out.ok
             THEN /\ answer_df' = out.df
                  /\ pc' = "compare"
                  /\ UNCHANGED <<exc, raised_at, raised_in>>
             ELSE /\ exc' = <<out.error>>
                  /\ raised_at' = now'
                  /\ raised_in' = "reference_sql"
                  /\ pc' = "except"
                  /\ UNCHANGED answer_df
    /\ UNCHANGED <<today, submissions, problem_id, sql, data_type, start,
                   session_date, lookup_path, problem, answer_sql, user_df,
                   is_correct, feedback, ret, measured_at, compare_calls, saved>>
    /\ UNCHANGED cmpVars
    /\ UNCHANGED conVars
    /\ UNCHANGED jobVars

\* Line 101: the two results are compared.
Compare ==
    /\ pc = "compare"
    /\ Elapse
    /\ compare_calls' = compare_calls + 1
    /\ IF compare_results_raises(user_df, answer_df)
       THEN /\ exc' = <<ErrAttribute>>
            /\ raised_at' = now'
            /\ raised_in' = "compare_results"
            /\ pc' = "except"
            /\ UNCHANGED <<is_correct, feedback>>
       ELSE /\ is_correct' = compare_results(user_df, answer_df).equal
            /\ feedback' = compare_results(user_df, answer_df).reason
            /\ pc' = "save"
            /\ UNCHANGED <<exc, raised_at, raised_in>>
    /\ UNCHANGED <<today, submissions, problem_id, sql, data_type, start,
                   session_date, lookup_path, problem, answer_sql, user_df,
                   answer_df, ret, measured_at, answer_execs, saved>>
    /\ UNCHANGED cmpVars
    /\ UNCHANGED conVars
    /\ UNCHANGED jobVars
    /\ UNCHANGED held

\* Lines 102-105: no reference SQL; any non-empty result passes.
Fallback ==
    /\ pc = "grade"
    /\ ~Truthy(answer_sql)
    /\ Elapse
    /\ is_correct' = FallbackCorrect(user_df)
    /\ feedback' = FallbackFeedback(is_correct')
    /\ pc' = "save"
    /\ UNCHANGED <<today, submissions, problem_id, sql, data_type, start,
                   session_date, lookup_path, problem, answer_sql, user_df,
                   answer_df, exc, ret, raised_at, raised_in, measured_at, answer_execs,
                   compare_calls, saved>>
    /\ UNCHANGED cmpVars
    /\ UNCHANGED conVars
    /\ UNCHANGED jobVars
    /\ UNCHANGED held

\* Lines 108-115 (and 161-182): the attempt is recorded.
Save ==
    /\ pc = "save"
    /\ Elapse
    /\ saved' = Append(saved, [is_correct |-> is_correct, feedback |-> feedback])
    /\ \E insert_ok \in BOOLEAN :
          /\ submissions' = Inserted(submissions, data_type,
                                SubmissionRow(session_date, problem_id, sql,
                                              is_correct, feedback, now),
                                insert_ok)
          /\ IF SaveSubmissionRaises(insert_ok)
             THEN /\ exc' = <<ErrInsert>>
                  /\ raised_at' = now'
                  /\ raised_in' = "save_submission"
                  /\ pc' = "except"
             ELSE /\ pc' = "measure"
                  /\ UNCHANGED <<exc, raised_at, raised_in>>
    /\ UNCHANGED <<today, problem_id, sql, data_type, start, session_date,
                   lookup_path, problem, answer_sql, user_df, answer_df,
                   is_correct, feedback, ret, measured_at, answer_execs,
                   compare_calls>>
    /\ UNCHANGED cmpVars
    /\ UNCHANGED conVars
    /\ UNCHANGED jobVars
    /\ UNCHANGED held

\* Lines 117-124: the elapsed time is taken and the response returned.
Return ==
    /\ pc = "measure"
    /\ measured_at' = now
    /\ ret' = SubmitResponse(is_correct, feedback, Elapsed(start, now), <<>>)
    /\ pc' = "returned"
    /\ UNCHANGED <<now, today, submissions, problem_id, sql, data_type, start,
                   session_date, lookup_path, problem, answer_sql, user_df,
                   answer_df, is_correct, feedback, exc, raised_at, raised_in,
                   answer_execs, compare_calls, saved>>
    /\ UNCHANGED cmpVars
    /\ UNCHANGED conVars
    /\ UNCHANGED jobVars
    /\ UNCHANGED held

\* Lines 126-136: the handler builds the feedback and records the attempt.
ExceptSave ==
    /\ pc = "except"
    /\ Elapse
    /\ feedback' = FeedbackExecError(exc[1])
    /\ saved' = Append(saved, [is_correct |-> FALSE, feedback |-> feedback'])
    /\ \E insert_ok \in BOOLEAN :
          /\ submissions' = Inserted(submissions, data_type,
                                SubmissionRow(session_date, problem_id, sql,
                                              FALSE, feedback', now),
                                insert_ok)
          /\ pc' = IF SaveSubmissionRaises(insert_ok) THEN "raised" ELSE "except_return"
    /\ UNCHANGED <<today, problem_id, sql, data_type, start, session_date,
                   lookup_path, problem, answer_sql, user_df, answer_df,
                   is_correct, exc, ret, raised_at, raised_in, measured_at, answer_execs,
                   compare_calls>>
    /\ UNCHANGED cmpVars
    /\ UNCHANGED conVars
    /\ UNCHANGED jobVars
    /\ UNCHANGED held

\* Lines 138-143: the error response is returned.
ExceptReturn ==
    /\ pc = "except_return"
    /\ ret' = SubmitResponse(FALSE, feedback, ErrorPathElapsed(start, now), <<exc[1]>>)
    /\ pc' = "returned"
    /\ UNCHANGED <<now, today, submissions, problem_id, sql, data_type, start,
                   session_date, lookup_path, problem, answer_sql, user_df,
                   answer_df, is_correct, feedback, exc, raised_at, raised_in, measured_at,
                   answer_execs, compare_calls, saved>>
    /\ UNCHANGED cmpVars
    /\ UNCHANGED conVars
    /\ UNCHANGED jobVars
    /\ UNCHANGED held

Next ==
    \/ Call
    \/ Midnight
    \/ LoadProblem
    \/ ConnectUser
    \/ ExecUser
    \/ ConnectAnswer
    \/ ExecAnswer
    \/ Compare
    \/ Fallback
    \/ Save
    \/ Return
    \/ ExceptSave
    \/ ExceptReturn

Spec == Init /\ [][Next]_vars

(***************************************************************************)
(* SpecConcurrent: two grade_submission calls run at once, their           *)
(* statements interleaved in every order, over problem files and a store   *)
(* that nothing else changes. Each call inserts its row into the           *)
(* submissions table; the clock stands still.                              *)
(***************************************************************************)
soloVars == <<now, today, pc, problem_id, sql, data_type, start, session_date,
              lookup_path, problem, answer_sql, user_df, answer_df, is_correct,
              feedback, exc, ret, raised_at, raised_in, measured_at, answer_execs,
              compare_calls, saved, held>>

\* The day's file of a data type: out of reach, absent, or holding problem p1.
DayFiles ==
    {[denied |-> TRUE, exists |-> FALSE, readable |-> FALSE, problems |-> <<>>],
     [denied |-> FALSE, exists |-> FALSE, readable |-> FALSE, problems |-> <<>>]}
    \cup {[denied |-> FALSE, exists |-> TRUE, readable |-> TRUE,
           problems |-> <<[problem_id |-> "p1", answer_sql |-> a]>>] :
            a \in {NoneValue, OtherValue, StrValue(<<"SELECT", ";">>), StrValue(<<"SELEC">>)}}

\* pg.fetch_df(stmt) over a store that does not change and can be reached.
StoreOutcome(db, stmt) == IF IsQuery(stmt) THEN Fetched(db) ELSE Raised(ErrSyntax)

\* Line 100 over that store.
StoreAnswerOutcome(db, v) ==
    IF v.kind = "str" THEN StoreOutcome(db, Statement(v.text)) ELSE Raised(ErrAttribute)

\* Storage in which every call keeps its variables in the same place, as
\* module-level names would.
SharedSlot(c) == 1

\* Where call c keeps problem, answer_sql, user_df, answer_df, is_correct,
\* feedback and e: they are local variables, so each call has its own.
Slot(c) == c

InitConcurrent ==
    /\ cmp_user = NoFrame
    /\ cmp_answer = NoFrame
    /\ CompareIdle
    /\ now = 0
    /\ GradeIdle
    /\ con_file \in [DataTypes -> DayFiles]
    /\ con_db \in ResultTables
    /\ con_args \in [Calls -> [problem_id : ProblemIds, sql : SqlTexts, data_type : DataTypes]]
    /\ con_pc = [c \in Calls |-> "load"]
    /\ con_locals = [c \in Calls |-> NoLocals]
    /\ con_ret = [c \in Calls |-> NoResponse]
    /\ JobsIdle

\* Lines 89-90.
ConLoadProblem(c) ==
    /\ con_pc[c] = "load"
    /\ LET out == load_problem_with_answer(con_args[c].problem_id,
                                           con_file[con_args[c].data_type])
       IN  IF out.ok
           THEN /\ con_locals' = [con_locals EXCEPT
                                     ![Slot(c)].problem = out.problem,
                                     ![Slot(c)].answer_sql = AnswerSqlOf(out.problem)]
                /\ con_pc' = [con_pc EXCEPT ![c] = "exec_user"]
           ELSE /\ con_locals' = [con_locals EXCEPT ![Slot(c)].exc = <<out.error>>]
                /\ con_pc' = [con_pc EXCEPT ![c] = "except"]
    /\ UNCHANGED <<con_file, con_db, con_args, con_ret, submissions>>
    /\ UNCHANGED soloVars
    /\ UNCHANGED cmpVars
    /\ UNCHANGED jobVars

\* Lines 93-94.
ConExecUser(c) ==
    /\ con_pc[c] = "exec_user"
    /\ LET out == StoreOutcome(con_db, Statement(con_args[c].sql))
       IN  IF out.ok
           THEN /\ con_locals' = [con_locals EXCEPT ![Slot(c)].user_df = out.df]
                /\ con_pc' = [con_pc EXCEPT ![c] = "grade"]
           ELSE /\ con_locals' = [con_locals EXCEPT ![Slot(c)].exc = <<out.error>>]
                /\ con_pc' = [con_pc EXCEPT ![c] = "except"]
    /\ UNCHANGED <<con_file, con_db, con_args, con_ret, submissions>>
    /\ UNCHANGED soloVars
    /\ UNCHANGED cmpVars
    /\ UNCHANGED jobVars

\* Lines 97-100.
ConExecAnswer(c) ==
    /\ con_pc[c] = "grade"
    /\ Truthy(con_locals[Slot(c)].answer_sql)
    /\ LET out == StoreAnswerOutcome(con_db, con_locals[Slot(c)].answer_sql)
       IN  IF out.ok
           THEN /\ con_locals' = [con_locals EXCEPT ![Slot(c)].answer_df = out.df]
                /\ con_pc' = [con_pc EXCEPT ![c] = "compare"]
           ELSE /\ con_locals' = [con_locals EXCEPT ![Slot(c)].exc = <<out.error>>]
                /\ con_pc' = [con_pc EXCEPT ![c] = "except"]
    /\ UNCHANGED <<con_file, con_db, con_args, con_ret, submissions>>
    /\ UNCHANGED soloVars
    /\ UNCHANGED cmpVars
    /\ UNCHANGED jobVars

\* Line 101.
ConCompare(c) ==
    /\ con_pc[c] = "compare"
    /\ LET r == compare_results(con_locals[Slot(c)].user_df, con_locals[Slot(c)].answer_df)
       IN  IF compare_results_raises(con_locals[Slot(c)].user_df,
                                     con_locals[Slot(c)].answer_df)
           THEN /\ con_locals' = [con_locals EXCEPT ![Slot(c)].exc = <<ErrAttribute>>]
                /\ con_pc' = [con_pc EXCEPT ![c] = "except"]
           ELSE /\ con_locals' = [con_locals EXCEPT ![Slot(c)].is_correct = r.equal,
                                                    ![Slot(c)].feedback = r.reason]
                /\ con_pc' = [con_pc EXCEPT ![c] = "save"]
    /\ UNCHANGED <<con_file, con_db, con_args, con_ret, submissions>>
    /\ UNCHANGED soloVars
    /\ UNCHANGED cmpVars
    /\ UNCHANGED jobVars

\* Lines 102-105.
ConFallback(c) ==
    /\ con_pc[c] = "grade"
    /\ ~Truthy(con_locals[Slot(c)].answer_sql)
    /\ LET ok == FallbackCorrect(con_locals[Slot(c)].user_df)
       IN  con_locals' = [con_locals EXCEPT ![Slot(c)].is_correct = ok,
                                            ![Slot(c)].feedback = FallbackFeedback(ok)]
    /\ con_pc' = [con_pc EXCEPT ![c] = "save"]
    /\ UNCHANGED <<con_file, con_db, con_args, con_ret, submissions>>
    /\ UNCHANGED soloVars
    /\ UNCHANGED cmpVars
    /\ UNCHANGED jobVars

\* Lines 108-115.
ConSave(c) ==
    /\ con_pc[c] = "save"
    /\ \E insert_ok \in BOOLEAN :
          submissions' = Inserted(submissions, con_args[c].data_type,
                             SubmissionRow(today, con_args[c].problem_id, con_args[c].sql,
                                           con_locals[Slot(c)].is_correct,
                                           con_locals[Slot(c)].feedback, now),
                             insert_ok)
    /\ con_pc' = [con_pc EXCEPT ![c] = "measure"]
    /\ UNCHANGED <<con_file, con_db, con_args, con_locals, con_ret>>
    /\ UNCHANGED soloVars
    /\ UNCHANGED cmpVars
    /\ UNCHANGED jobVars

\* Lines 117-124.
ConReturn(c) ==
    /\ con_pc[c] = "measure"
    /\ con_ret' = [con_ret EXCEPT ![c] =
                      SubmitResponse(con_locals[Slot(c)].is_correct,
                                     con_locals[Slot(c)].feedback, Elapsed(now, now), <<>>)]
    /\ con_pc' = [con_pc EXCEPT ![c] = "returned"]
    /\ UNCHANGED <<con_file, con_db, con_args, con_locals, submissions>>
    /\ UNCHANGED soloVars
    /\ UNCHANGED cmpVars
    /\ UNCHANGED jobVars

\* Lines 126-136.
ConExceptSave(c) ==
    /\ con_pc[c] = "except"
    /\ LET fb == FeedbackExecError(con_locals[Slot(c)].exc[1])
       IN  /\ con_locals' = [con_locals EXCEPT ![Slot(c)].feedback = fb]
           /\ \E insert_ok \in BOOLEAN :
                 submissions' = Inserted(submissions, con_args[c].data_type,
                                    SubmissionRow(today, con_args[c].problem_id,
                                                  con_args[c].sql, FALSE, fb, now),
                                    insert_ok)
    /\ con_pc' = [con_pc EXCEPT ![c] = "except_return"]
    /\ UNCHANGED <<con_file, con_db, con_args, con_ret>>
    /\ UNCHANGED soloVars
    /\ UNCHANGED cmpVars
    /\ UNCHANGED jobVars

\* Lines 138-143.
ConExceptReturn(c) ==
    /\ con_pc[c] = "except_return"
    /\ con_ret' = [con_ret EXCEPT ![c] =
                      SubmitResponse(FALSE, con_locals[Slot(c)].feedback,
                                     ErrorPathElapsed(now, now),
                                     <<con_locals[Slot(c)].exc[1]>>)]
    /\ con_pc' = [con_pc EXCEPT ![c] = "returned"]
    /\ UNCHANGED <<con_file, con_db, con_args, con_locals, submissions>>
    /\ UNCHANGED soloVars
    /\ UNCHANGED cmpVars
    /\ UNCHANGED jobVars

\* One statement of one of the two calls.
ConStep(c) ==
    \/ ConLoadProblem(c)
    \/ ConExecUser(c)
    \/ ConExecAnswer(c)
    \/ ConCompare(c)
    \/ ConFallback(c)
    \/ ConSave(c)
    \/ ConReturn(c)
    \/ ConExceptSave(c)
    \/ ConExceptReturn(c)

NextConcurrent == \E c \in Calls : ConStep(c)

SpecConcurrent == InitConcurrent /\ [][NextConcurrent]_vars

(***************************************************************************)
(* SpecScheduler: backend/scheduler.py. start_scheduler registers the cron *)
(* job, starts the background scheduler and then runs                      *)
(* run_daily_problem_generation itself; the cron trigger runs the same     *)
(* function on the scheduler's thread. The statements of the two runs      *)
(* interleave.                                                             *)
(***************************************************************************)
gradingVars == <<cmpVars, gradeVars, conVars>>

\* os.path.exists(path) for the day's file.
FileExists(files, d) == d \in files

\* The files after a generator has opened the day's file for writing.
FileWritten(files, d) == files \cup {d}

\* generator.py 24-64, the ways generate(today, pg) ends: it returns the path;
\* it raises before line 60 (the language model, the validation of lines
\* 30-37, the expected tables); or open(path, "w") of line 60 has created the
\* file and json.dump of line 61 raises (ensure_ascii=False writes a lone
\* surrogate of the answer to the utf-8 file), which leaves the file behind.
GenerateOutcomes == {"returned", "raised_before_open", "raised_in_dump"}

\* generator.py line 60: the file exists from open(path, "w") on.
FileOpened(outcome) == outcome \in {"returned", "raised_in_dump"}

InitScheduler ==
    /\ cmp_user = NoFrame
    /\ cmp_answer = NoFrame
    /\ CompareIdle
    /\ now = 0
    /\ GradeIdle
    /\ ConcurrentIdle
    /\ sch_day \in Days
    /\ sch_pc = [r \in Runs |-> IF r = "startup" THEN "start_scheduler" ELSE "off"]
    /\ sch_today = [r \in Runs |-> 0]
    /\ sch_pa_files \in SUBSET Days
    /\ sch_stream_files \in SUBSET Days
    /\ sch_pa_invoked = [d \in Days |-> 0]
    /\ sch_pa_written = [d \in Days |-> 0]
    /\ PipelineIdle
    /\ PracticeIdle

\* The calendar date changes.
SchMidnight ==
    /\ sch_day < MaxDay
    /\ \E r \in Runs : sch_pc[r] # "done"
    /\ sch_day' = sch_day + 1
    /\ UNCHANGED <<sch_pc, sch_today, sch_pa_files, sch_stream_files,
                   sch_pa_invoked, sch_pa_written>>
    /\ UNCHANGED gradingVars
    /\ UNCHANGED <<pipeVars, pracVars>>

\* start_scheduler, lines 182-200: add_job and scheduler.start(); from here on
\* the trigger can fire on the scheduler's thread.
StartScheduler ==
    /\ sch_pc["startup"] = "start_scheduler"
    /\ sch_pc' = [sch_pc EXCEPT !["startup"] = "begin", !["cron"] = "begin"]
    /\ UNCHANGED <<sch_day, sch_today, sch_pa_files, sch_stream_files,
                   sch_pa_invoked, sch_pa_written>>
    /\ UNCHANGED gradingVars
    /\ UNCHANGED <<pipeVars, pracVars>>

\* Lines 104-122: the run reads the date (line 203 calls it for the startup
\* run, the trigger for the cron run), logs its start and opens the engine;
\* when the imports or PostgresEngine(...) raise, the handler of lines
\* 169-177 ends the run, and when db_log of line 111 raises the exception
\* leaves the function: either way the run is over with the date read.
RunBegin(r) ==
    /\ sch_pc[r] = "begin"
    /\ sch_today' = [sch_today EXCEPT ![r] = sch_day]
    /\ \E opened \in BOOLEAN :
          sch_pc' = [sch_pc EXCEPT ![r] = IF opened THEN "check_pa" ELSE "done"]
    /\ UNCHANGED <<sch_day, sch_pa_files, sch_stream_files, sch_pa_invoked, sch_pa_written>>
    /\ UNCHANGED gradingVars
    /\ UNCHANGED <<pipeVars, pracVars>>

\* Lines 125-126, 137-138: is the day's PA file there?
CheckPa(r) ==
    /\ sch_pc[r] = "check_pa"
    /\ sch_pc' = [sch_pc EXCEPT ![r] = IF FileExists(sch_pa_files, sch_today[r])
                                       THEN "check_stream" ELSE "gen_pa"]
    /\ UNCHANGED <<sch_day, sch_today, sch_pa_files, sch_stream_files,
                   sch_pa_invoked, sch_pa_written>>
    /\ UNCHANGED gradingVars
    /\ UNCHANGED <<pipeVars, pracVars>>

\* Lines 127-129: the generator is imported (line 128 runs the module
\* problems.generator and what it imports) and gen_pa_problems(today, pg)
\* is called; it asks the language model for the problems and builds the
\* expected tables (generator.py 24-57). When the import raises, the
\* generator is not called and the handler of lines 169-177 ends the run.
GenPaCall(r) ==
    /\ sch_pc[r] = "gen_pa"
    /\ \E imported \in BOOLEAN :
          IF imported
          THEN /\ sch_pa_invoked' = [sch_pa_invoked EXCEPT ![sch_today[r]] = @ + 1]
               /\ sch_pc' = [sch_pc EXCEPT ![r] = "generating_pa"]
          ELSE /\ sch_pc' = [sch_pc EXCEPT ![r] = "done"]
               /\ UNCHANGED sch_pa_invoked
    /\ UNCHANGED <<sch_day, sch_today, sch_pa_files, sch_stream_files, sch_pa_written>>
    /\ UNCHANGED gradingVars
    /\ UNCHANGED <<pipeVars, pracVars>>

\* generator.py line 60: open(path, "w") creates the day's file while the run
\* is still inside the generator; the other run sees it from here on. (On a
\* file that is there already the open changes nothing that is modelled.)
GenPaOpen(r) ==
    /\ sch_pc[r] = "generating_pa"
    /\ ~FileExists(sch_pa_files, sch_today[r])
    /\ sch_pa_files' = FileWritten(sch_pa_files, sch_today[r])
    /\ UNCHANGED <<sch_day, sch_pc, sch_today, sch_stream_files, sch_pa_invoked,
                   sch_pa_written>>
    /\ UNCHANGED gradingVars
    /\ UNCHANGED <<pipeVars, pracVars>>

\* generator.py 24-64 and line 129: the generator ends. It returns after
\* json.dump has written the file opened at line 60, and the run goes on to
\* the log entry of line 131; or it raises, before line 60 or in json.dump
\* with the file opened, and the handler of lines 169-177 ends the run.
GenPaFinish(r) ==
    /\ sch_pc[r] = "generating_pa"
    /\ \E outcome \in GenerateOutcomes :
          /\ FileOpened(outcome) => FileExists(sch_pa_files, sch_today[r])
          /\ sch_pa_written' = IF outcome = "returned"
                               THEN [sch_pa_written EXCEPT ![sch_today[r]] = @ + 1]
                               ELSE sch_pa_written
          /\ sch_pc' = [sch_pc EXCEPT ![r] = IF outcome = "returned"
                                             THEN "log_pa" ELSE "done"]
    /\ UNCHANGED <<sch_day, sch_today, sch_pa_files, sch_stream_files, sch_pa_invoked>>
    /\ UNCHANGED gradingVars
    /\ UNCHANGED <<pipeVars, pracVars>>

\* Lines 131-136: db_log records the generation; when it raises, the handler
\* of lines 169-177 ends the run.
GenPaLog(r) ==
    /\ sch_pc[r] = "log_pa"
    /\ \E logged \in BOOLEAN :
          sch_pc' = [sch_pc EXCEPT ![r] = IF logged THEN "check_stream" ELSE "done"]
    /\ UNCHANGED <<sch_day, sch_today, sch_pa_files, sch_stream_files,
                   sch_pa_invoked, sch_pa_written>>
    /\ UNCHANGED gradingVars
    /\ UNCHANGED <<pipeVars, pracVars>>

\* Lines 141-142, 153-154: is the day's stream file there?
CheckStream(r) ==
    /\ sch_pc[r] = "check_stream"
    /\ sch_pc' = [sch_pc EXCEPT ![r] = IF FileExists(sch_stream_files, sch_today[r])
                                       THEN "cleanup" ELSE "gen_stream"]
    /\ UNCHANGED <<sch_day, sch_today, sch_pa_files, sch_stream_files,
                   sch_pa_invoked, sch_pa_written>>
    /\ UNCHANGED gradingVars
    /\ UNCHANGED <<pipeVars, pracVars>>

\* Lines 143-145: the stream generator is imported (line 144) and
\* generate_stream_problems(today, pg) is called; when the import raises,
\* the handler of lines 169-177 ends the run.
GenStreamCall(r) ==
    /\ sch_pc[r] = "gen_stream"
    /\ \E imported \in BOOLEAN :
          sch_pc' = [sch_pc EXCEPT ![r] = IF imported THEN "generating_stream" ELSE "done"]
    /\ UNCHANGED <<sch_day, sch_today, sch_pa_files, sch_stream_files,
                   sch_pa_invoked, sch_pa_written>>
    /\ UNCHANGED gradingVars
    /\ UNCHANGED <<pipeVars, pracVars>>

\* Line 145: the stream generator writes the file and returns, and the run
\* goes on to the log entry of line 147; or it raised and the handler of
\* lines 169-177 ends the run.
GenStreamFinish(r) ==
    /\ sch_pc[r] = "generating_stream"
    /\ \E generated \in BOOLEAN :
          /\ sch_stream_files' = IF generated
                                 THEN FileWritten(sch_stream_files, sch_today[r])
                                 ELSE sch_stream_files
          /\ sch_pc' = [sch_pc EXCEPT ![r] = IF generated THEN "log_stream" ELSE "done"]
    /\ UNCHANGED <<sch_day, sch_today, sch_pa_files, sch_pa_invoked, sch_pa_written>>
    /\ UNCHANGED gradingVars
    /\ UNCHANGED <<pipeVars, pracVars>>

\* Lines 147-152: db_log records the generation; when it raises, the handler
\* of lines 169-177 ends the run.
GenStreamLog(r) ==
    /\ sch_pc[r] = "log_stream"
    /\ \E logged \in BOOLEAN :
          sch_pc' = [sch_pc EXCEPT ![r] = IF logged THEN "cleanup" ELSE "done"]
    /\ UNCHANGED <<sch_day, sch_today, sch_pa_files, sch_stream_files,
                   sch_pa_invoked, sch_pa_written>>
    /\ UNCHANGED gradingVars
    /\ UNCHANGED <<pipeVars, pracVars>>

\* Lines 156-167: pg.close(), cleanup_old_data() and the closing log entry. The
\* cleanup removes files older than RETENTION_DAYS, none of the days here.
RunFinish(r) ==
    /\ sch_pc[r] = "cleanup"
    /\ sch_pc' = [sch_pc EXCEPT ![r] = "done"]
    /\ UNCHANGED <<sch_day, sch_today, sch_pa_files, sch_stream_files,
                   sch_pa_invoked, sch_pa_written>>
    /\ UNCHANGED gradingVars
    /\ UNCHANGED <<pipeVars, pracVars>>

NextScheduler ==
    \/ SchMidnight
    \/ StartScheduler
    \/ \E r \in Runs : RunBegin(r)
    \/ \E r \in Runs : CheckPa(r)
    \/ \E r \in Runs : GenPaCall(r)
    \/ \E r \in Runs : GenPaOpen(r)
    \/ \E r \in Runs : GenPaFinish(r)
    \/ \E r \in Runs : GenPaLog(r)
    \/ \E r \in Runs : CheckStream(r)
    \/ \E r \in Runs : GenStreamCall(r)
    \/ \E r \in Runs : GenStreamFinish(r)
    \/ \E r \in Runs : GenStreamLog(r)
    \/ \E r \in Runs : RunFinish(r)

SpecScheduler == InitScheduler /\ [][NextScheduler]_vars

(***************************************************************************)
(* SpecPipeline: scripts/run_daily.py. run_scheduler makes its startup      *)
(* check, then run_daily_pipeline is run again and again, one run after    *)
(* the other has ended, while the date may change.                         *)
(***************************************************************************)
\* The pipeline is started at most MaxPipelineRuns times.
MaxPipelineRuns == 3

SessionStatuses == {"GENERATED", "STARTED", "SKIPPED"}

\* The row of line 105-110.
SessionRecord(d, path, status) ==
    [session_date |-> d, problem_set_path |-> path, status |-> status]

\* duck.exists("daily_sessions", session_date=d)
SessionExists(sessions, d) == \E i \in 1..Len(sessions) : sessions[i].session_date = d

\* Lines 50-58: UPDATE daily_sessions SET status='SKIPPED' for yesterday's
\* rows that are GENERATED or STARTED.
YesterdaySkipped(sessions, d) ==
    [i \in 1..Len(sessions) |->
        IF sessions[i].session_date = d - 1 /\ sessions[i].status \in {"GENERATED", "STARTED"}
        THEN [sessions[i] EXCEPT !.status = "SKIPPED"]
        ELSE sessions[i]]

\* A run that goes on to generate although today's session is recorded.
EarlyReturnNever(exists) == FALSE

\* Lines 63-67: the run ends here when today's session exists.
EarlyReturn(exists) == exists

\* A failure of the problem generator that leaves run_daily_pipeline.
ProblemGenerationPropagates(generated) == ~generated

\* Lines 94-100: `except Exception` keeps a failure of the generator inside
\* the run.
ProblemGenerationRaises(generated) == FALSE

\* Lines 96 and 100: the path gen_problems returned, or None.
ProblemPathAfter(d, generated) == IF generated THEN <<d>> ELSE <<>>

InitPipeline ==
    /\ cmp_user = NoFrame
    /\ cmp_answer = NoFrame
    /\ CompareIdle
    /\ now = 0
    /\ GradeIdle
    /\ ConcurrentIdle
    /\ SchedulerIdle
    /\ PracticeIdle
    /\ pipe_day = 1
    /\ pipe_pc = "startup"
    /\ pipe_today = 0
    /\ pipe_problem_path = <<>>
    /\ pipe_files \in {{}, {1}}
    /\ pipe_sessions \in {<<>>} \cup {<<SessionRecord(1, path, st)>> :
                                        path \in {<<>>, <<1>>}, st \in SessionStatuses}
    /\ pipe_runs = 0
    /\ pipe_run = NoRunYet

\* The calendar date changes, between runs or during one.
PipeMidnight ==
    /\ pipe_day < MaxDay
    /\ pipe_day' = pipe_day + 1
    /\ UNCHANGED <<pipe_pc, pipe_today, pipe_problem_path, pipe_sessions, pipe_files,
                   pipe_runs, pipe_run>>
    /\ UNCHANGED gradingVars
    /\ UNCHANGED <<schVars, pracVars>>

\* Lines 137-172 (called at line 122): check_and_init_on_startup. The engine
\* is opened outside any try, so a failure ends run_scheduler; the data
\* check swallows its failures; today's problems are generated when their
\* file is missing, a failure of the generator being logged (the file is
\* there when the generator got as far as opening it).
PipeStartupCheck ==
    /\ pipe_pc = "startup"
    /\ \E opened \in BOOLEAN, outcome \in GenerateOutcomes :
          IF ~opened
          THEN /\ pipe_pc' = "stopped"
               /\ UNCHANGED pipe_files
          ELSE /\ pipe_pc' = "idle"
               /\ pipe_files' = IF ~FileExists(pipe_files, pipe_day) /\ FileOpened(outcome)
                                THEN FileWritten(pipe_files, pipe_day)
                                ELSE pipe_files
    /\ UNCHANGED <<pipe_day, pipe_today, pipe_problem_path, pipe_sessions, pipe_runs, pipe_run>>
    /\ UNCHANGED gradingVars
    /\ UNCHANGED <<schVars, pracVars>>

\* Lines 33-58: the run reads the date, opens the engines, runs the init
\* SQL and marks yesterday's open session SKIPPED. Only the missing init file
\* is caught: any other failure of these statements leaves the run
\* (run_scheduler logs it at line 127) before today's session is looked up.
PipeStart ==
    /\ pipe_pc = "idle"
    /\ pipe_runs < MaxPipelineRuns
    /\ pipe_runs' = pipe_runs + 1
    /\ pipe_today' = pipe_day
    /\ pipe_problem_path' = <<>>
    /\ \E prepared \in BOOLEAN :
          IF prepared
          THEN /\ pipe_sessions' = YesterdaySkipped(pipe_sessions, pipe_day)
               /\ pipe_run' = NoRunYet
               /\ pipe_pc' = "check"
          ELSE /\ pipe_sessions' = pipe_sessions
               /\ pipe_run' = [NoRunYet EXCEPT !.raised = TRUE]
               /\ pipe_pc' = "idle"
    /\ UNCHANGED <<pipe_day, pipe_files>>
    /\ UNCHANGED gradingVars
    /\ UNCHANGED <<schVars, pracVars>>

\* Lines 63-67: today's session is looked up.
PipeCheck ==
    /\ pipe_pc = "check"
    /\ IF EarlyReturn(SessionExists(pipe_sessions, pipe_today))
       THEN /\ pipe_run' = [pipe_run EXCEPT !.found = TRUE]
            /\ pipe_pc' = "idle"
       ELSE /\ pipe_run' = [pipe_run EXCEPT !.found = SessionExists(pipe_sessions, pipe_today)]
            /\ pipe_pc' = "gen_data"
    /\ UNCHANGED <<pipe_day, pipe_today, pipe_problem_path, pipe_sessions, pipe_files,
                   pipe_runs>>
    /\ UNCHANGED gradingVars
    /\ UNCHANGED <<schVars, pracVars>>

\* Lines 72-88: the PA data every day, the stream data on the refresh
\* weekday; a failure of either is logged and the run goes on.
PipeGenerateData ==
    /\ pipe_pc = "gen_data"
    /\ \E refresh_day \in BOOLEAN :
          pipe_run' = [pipe_run EXCEPT !.data_gens = IF refresh_day THEN 2 ELSE 1]
    /\ pipe_pc' = "gen_problems"
    /\ UNCHANGED <<pipe_day, pipe_today, pipe_problem_path, pipe_sessions, pipe_files,
                   pipe_runs>>
    /\ UNCHANGED gradingVars
    /\ UNCHANGED <<schVars, pracVars>>

\* Lines 93-100: the problems are generated, or the generator raises; the
\* file is there when the generator got as far as opening it, also when it
\* raised after that and problem_path is None.
PipeGenerateProblems ==
    /\ pipe_pc = "gen_problems"
    /\ \E outcome \in GenerateOutcomes :
       LET generated == outcome = "returned" IN
          /\ pipe_run' = [pipe_run EXCEPT !.problem_gens = @ + 1,
                                          !.gen_failed = ~generated,
                                          !.raised = ProblemGenerationRaises(generated)]
          /\ pipe_files' = IF FileOpened(outcome) THEN FileWritten(pipe_files, pipe_today)
                                                  ELSE pipe_files
          /\ IF ProblemGenerationRaises(generated)
             THEN /\ pipe_pc' = "idle"
                  /\ UNCHANGED pipe_problem_path
             ELSE /\ pipe_pc' = "insert"
                  /\ pipe_problem_path' = ProblemPathAfter(pipe_today, generated)
    /\ UNCHANGED <<pipe_day, pipe_today, pipe_sessions, pipe_runs>>
    /\ UNCHANGED gradingVars
    /\ UNCHANGED <<schVars, pracVars>>

\* Lines 105-114: the session row is inserted; a failure of the insert leaves
\* the run as an exception.
PipeInsert ==
    /\ pipe_pc = "insert"
    /\ \E insert_ok \in BOOLEAN :
          /\ pipe_sessions' = IF insert_ok
                              THEN Append(pipe_sessions,
                                          SessionRecord(pipe_today, pipe_problem_path, "GENERATED"))
                              ELSE pipe_sessions
          /\ pipe_run' = [pipe_run EXCEPT !.inserts = @ + 1, !.raised = ~insert_ok]
    /\ pipe_pc' = "idle"
    /\ UNCHANGED <<pipe_day, pipe_today, pipe_problem_path, pipe_files, pipe_runs>>
    /\ UNCHANGED gradingVars
    /\ UNCHANGED <<schVars, pracVars>>

NextPipeline ==
    \/ PipeMidnight
    \/ PipeStartupCheck
    \/ PipeStart
    \/ PipeCheck
    \/ PipeGenerateData
    \/ PipeGenerateProblems
    \/ PipeInsert

SpecPipeline == InitPipeline /\ [][NextPipeline]_vars

(***************************************************************************)
(* SpecPractice: backend/api/practice.py, one submit_practice request.     *)
(* SQLGrader is used through execute_sql and compare_results only: a call  *)
(* of execute_sql returns a result with success and data, a result without *)
(* success (with or without an error text), or raises; compare_results     *)
(* returns a verdict or raises.                                            *)
(***************************************************************************)
ExecuteSqlOutcomes ==
    {[success |-> TRUE, data |-> v] : v \in Values}
        \cup {[success |-> FALSE, error |-> "syntax_error"], [success |-> FALSE]}
        \cup {[raised |-> "connection_lost"]}

\* Line 133: DIFFICULTY_SCORES.get(request.difficulty, 25).
DifficultyScore(difficulty) ==
    CASE difficulty = "easy" -> 10
      [] difficulty = "medium" -> 25
      [] difficulty = "hard" -> 50
      [] OTHER -> 25

\* The response of a submission whose own SQL failed, given for a failure of
\* the reference SQL.
AnswerErrorResponseAsUserError(result) ==
    [success |-> TRUE, is_correct |-> FALSE,
     message |-> [msg |-> "sql_error",
                  error |-> IF "error" \in DOMAIN result THEN result.error ELSE "unknown_error"]]

\* Lines 111-115.
AnswerErrorResponse(result) ==
    [success |-> FALSE, is_correct |-> FALSE,
     message |-> [msg |-> "answer_sql_error",
                  error |-> IF "error" \in DOMAIN result THEN result.error ELSE "unknown_error"]]

\* Lines 120-124.
UserErrorResponse(result) ==
    [success |-> TRUE, is_correct |-> FALSE,
     message |-> [msg |-> "sql_error",
                  error |-> IF "error" \in DOMAIN result THEN result.error ELSE "unknown_error"]]

\* Lines 130-141.
GradedResponse(verdict, difficulty) ==
    LET score == IF verdict THEN DifficultyScore(difficulty) ELSE 0
    IN  [success |-> TRUE, is_correct |-> verdict,
         score |-> IF verdict THEN score ELSE 0,
         message |-> [msg |-> IF verdict THEN "correct" ELSE "incorrect"]]

\* Lines 143-148.
GradingErrorResponse(e) ==
    [success |-> FALSE, is_correct |-> FALSE, message |-> [msg |-> "grading_error", error |-> e]]

InitPractice ==
    /\ cmp_user = NoFrame
    /\ cmp_answer = NoFrame
    /\ CompareIdle
    /\ now = 0
    /\ GradeIdle
    /\ ConcurrentIdle
    /\ SchedulerIdle
    /\ PipelineIdle
    /\ prac_pc = "exec_answer"
    /\ prac_request \in [problem_id : {"p1"}, sql : {"q1", "q2"}, answer_sql : {"q1", "q2"},
                         difficulty : {"easy", "medium", "hard", "expert"},
                         data_type : {"pa", "stream"}]
    /\ prac_expected = [unbound |-> TRUE]
    /\ prac_user = [unbound |-> TRUE]
    /\ prac_executed = <<>>
    /\ prac_ret = [unbound |-> TRUE]

\* Lines 104-115: the grader is made and the reference SQL is run.
PracExecAnswer ==
    /\ prac_pc = "exec_answer"
    /\ \/ /\ prac_ret' = GradingErrorResponse("grader_unavailable")
          /\ prac_pc' = "done"
          /\ UNCHANGED <<prac_expected, prac_executed>>
       \/ \E o \in ExecuteSqlOutcomes :
             /\ prac_executed' = Append(prac_executed,
                                        <<"answer_sql", prac_request.answer_sql, prac_request.data_type>>)
             /\ IF "raised" \in DOMAIN o
                THEN /\ prac_ret' = GradingErrorResponse(o.raised)
                     /\ prac_pc' = "done"
                     /\ UNCHANGED prac_expected
                ELSE /\ prac_expected' = o
                     /\ IF ~o.success
                        THEN /\ prac_ret' = AnswerErrorResponse(o)
                             /\ prac_pc' = "done"
                        ELSE /\ prac_pc' = "exec_user"
                             /\ UNCHANGED prac_ret
    /\ UNCHANGED <<prac_request, prac_user>>
    /\ UNCHANGED gradingVars
    /\ UNCHANGED <<schVars, pipeVars>>

\* Lines 118-124: the submitted SQL is run.
PracExecUser ==
    /\ prac_pc = "exec_user"
    /\ \E o \in ExecuteSqlOutcomes :
          /\ prac_executed' = Append(prac_executed,
                                     <<"sql", prac_request.sql, prac_request.data_type>>)
          /\ IF "raised" \in DOMAIN o
             THEN /\ prac_ret' = GradingErrorResponse(o.raised)
                  /\ prac_pc' = "done"
                  /\ UNCHANGED prac_user
             ELSE /\ prac_user' = o
                  /\ IF ~o.success
                     THEN /\ prac_ret' = UserErrorResponse(o)
                          /\ prac_pc' = "done"
                     ELSE /\ prac_pc' = "compare"
                          /\ UNCHANGED prac_ret
    /\ UNCHANGED <<prac_request, prac_expected>>
    /\ UNCHANGED gradingVars
    /\ UNCHANGED <<schVars, pipeVars>>

\* Lines 127-141: the two results are compared and the response is built.
PracCompare ==
    /\ prac_pc = "compare"
    /\ \/ \E verdict \in BOOLEAN :
             prac_ret' = GradedResponse(verdict, prac_request.difficulty)
       \/ prac_ret' = GradingErrorResponse("compare_failed")
    /\ prac_pc' = "done"
    /\ UNCHANGED <<prac_request, prac_expected, prac_user, prac_executed>>
    /\ UNCHANGED gradingVars
    /\ UNCHANGED <<schVars, pipeVars>>

NextPractice ==
    \/ PracExecAnswer
    \/ PracExecUser
    \/ PracCompare

SpecPractice == InitPractice /\ [][NextPractice]_vars

(***************************************************************************)
(* Claims about compare_results (checked under SpecCompare).               *)
(***************************************************************************)
\* The lower-cased labels of a frame are pairwise distinct, so that each row
\* reads as a record from lower-cased label to cell.
DistinctLower(df) ==
    \A i, j \in 1..Len(df.columns) : Lower(df.columns[i]) = Lower(df.columns[j]) => i = j

\* Row i of df as a mapping from lower-cased column name to value.
RecordAt(df, i) ==
    [c \in LowerColumnSet(df) |->
        df.rows[i][CHOOSE k \in 1..Len(df.columns) : Lower(df.columns[k]) = c]]

RecordCount(df, rec) == Cardinality({i \in 1..Len(df.rows) : RecordAt(df, i) = rec})

\* Both frames hold the same multiset of records.
SameRecordBag(df1, df2) ==
    /\ Len(df1.rows) = Len(df2.rows)
    /\ \A i \in 1..Len(df1.rows) :
          RecordCount(df1, RecordAt(df1, i)) = RecordCount(df2, RecordAt(df1, i))

\* The two frames are the same relation up to row order, column order and
\* the letter case of the column names.
SameUpToOrderAndCase(df1, df2) ==
    /\ DistinctLower(df1)
    /\ DistinctLower(df2)
    /\ LowerColumnSet(df1) = LowerColumnSet(df2)
    /\ SameRecordBag(df1, df2)

\* C1 (as claimed): tables with the same column names up to case and the same
\* multiset of records, in any row order and any column order, compare equal.
C1_EqualUpToOrderAndCase ==
    (cmp_done /\ SameUpToOrderAndCase(cmp_user, cmp_answer)) => cmp_ret.equal

\* C2: the checks run in the order column count, row count, column-name set,
\* values, and the reason returned is the message of the first one that fails.
C2_FirstFailingCheckDecides ==
    cmp_done =>
        IF Len(cmp_user.columns) # Len(cmp_answer.columns)
        THEN /\ ~cmp_ret.equal
             /\ cmp_ret.reason = [msg |-> "column_count_differs",
                                  submitted |-> Len(cmp_user.columns),
                                  answer |-> Len(cmp_answer.columns)]
        ELSE IF Len(cmp_user.rows) # Len(cmp_answer.rows)
        THEN /\ ~cmp_ret.equal
             /\ cmp_ret.reason = [msg |-> "row_count_differs",
                                  submitted |-> Len(cmp_user.rows),
                                  answer |-> Len(cmp_answer.rows)]
        ELSE IF {Lower(cmp_user.columns[i]) : i \in 1..Len(cmp_user.columns)}
                # {Lower(cmp_answer.columns[i]) : i \in 1..Len(cmp_answer.columns)}
        THEN /\ ~cmp_ret.equal
             /\ cmp_ret.reason.msg = "column_names_differ"
        ELSE cmp_ret.reason.msg \in {"correct", "values_differ", "compare_error"}

\* C2 witness: column count and row count both differ, the call has returned
\* and the reason is the column-count message.
C2_Witness ==
    /\ cmp_done
    /\ Len(cmp_user.columns) = 1 /\ Len(cmp_answer.columns) = 2
    /\ Len(cmp_user.rows) = 2 /\ Len(cmp_answer.rows) = 1
    /\ cmp_ret.reason.msg = "column_count_differs"

\* C3 (as claimed): whenever the row counts differ the result is equal=false
\* with a reason stating both row counts.
C3_RowCountAlwaysReported ==
    (cmp_done /\ Len(cmp_user.rows) # Len(cmp_answer.rows)) =>
        /\ ~cmp_ret.equal
        /\ cmp_ret.reason = [msg |-> "row_count_differs",
                             submitted |-> Len(cmp_user.rows),
                             answer |-> Len(cmp_answer.rows)]

\* C3 (amended): whenever the row counts differ the result is equal=false;
\* when the column counts agree the reason states both row counts, and when
\* they differ too the reason is the column-count message.
C3_RowCountReportedWhenColumnsAgree ==
    (cmp_done /\ Len(cmp_user.rows) # Len(cmp_answer.rows)) =>
        /\ ~cmp_ret.equal
        /\ Len(cmp_user.columns) = Len(cmp_answer.columns) =>
              cmp_ret.reason = [msg |-> "row_count_differs",
                                submitted |-> Len(cmp_user.rows),
                                answer |-> Len(cmp_answer.rows)]
        /\ Len(cmp_user.columns) # Len(cmp_answer.columns) =>
              cmp_ret.reason.msg = "column_count_differs"

\* C3 witness: three submitted rows against two reference rows, same columns.
C3_Witness ==
    /\ cmp_done
    /\ cmp_user.columns = cmp_answer.columns
    /\ Len(cmp_user.rows) = 3 /\ Len(cmp_answer.rows) = 2
    /\ cmp_ret.reason.msg = "row_count_differs"

(***************************************************************************)
(* Claims about grade_submission (checked under Spec).                     *)
(***************************************************************************)
\* Rows the persistence store holds, over both tables.
StoredRows == UNION {{submissions[t][i] : i \in 1..Len(submissions[t])} : t \in TableNames}

NumStoredRows == Len(submissions["pa_submissions"]) + Len(submissions["stream_submissions"])

\* The lookup gave no reference SQL: no problem found (file missing, file
\* out of reach or unreadable, id not in it), or a problem without a
\* non-empty answer_sql.
NoReference ==
    \/ problem = <<>>
    \/ /\ problem # <<>>
       /\ \/ problem[1].answer_sql.kind = "none"
          \/ /\ problem[1].answer_sql.kind = "str"
             /\ problem[1].answer_sql.text = <<>>

\* C4 (as claimed): when the submitted SQL ran and the reference SQL raised,
\* the verdict is not the one of a submitted-SQL execution error, and no
\* comparison was run.
C4_ReferenceFailureReportedDistinctly ==
    (pc = "returned" /\ raised_in = "reference_sql") =>
        /\ ret.feedback.msg # "sql_execution_error"
        /\ compare_calls = 0

\* C5: when executing the submitted SQL raises, the verdict is is_correct=false
\* with the error text in the feedback and as diff, the reference SQL is not
\* executed, compare_results is not called, and save_submission has been
\* called with that verdict by the time the response is returned.
C5_SubmittedSqlErrorVerdict ==
    (pc = "returned" /\ raised_in = "user_sql") =>
        /\ ret.is_correct = FALSE
        /\ ret.feedback = [msg |-> "sql_execution_error", error |-> exc[1]]
        /\ ret.diff = <<exc[1]>>
        /\ answer_execs = 0
        /\ compare_calls = 0
        /\ Len(saved) = 1
        /\ saved[1] = [is_correct |-> FALSE, feedback |-> ret.feedback]

\* C5 witness: a syntax error of the submitted SQL has been returned.
C5_Witness ==
    /\ pc = "returned"
    /\ raised_in = "user_sql"
    /\ exc = <<"syntax_error">>
    /\ ret.diff = <<"syntax_error">>
    /\ Len(saved) = 1

\* C6 (as claimed): every verdict carries the wall-clock time measured from
\* the start of the call; on the error path, measured up to the failure.
C6_ElapsedMeasuredOnEveryPath ==
    pc = "returned" =>
        ret.execution_time_ms =
            (IF exc = <<>> THEN measured_at - start ELSE raised_at - start) * 1000

\* C7 (as claimed): with no reference SQL available the call does not fail:
\* unless the submitted SQL itself raised, it returns normally with
\* is_correct=true and the success message iff the query returned at least
\* one row, else is_correct=false and the fallback message.
C7_FallbackAcceptsNonEmpty ==
    (pc = "returned" /\ NoReference /\ raised_in # "user_sql") =>
        /\ exc = <<>>
        /\ ret.diff = <<>>
        /\ ret.is_correct = (Len(user_df.rows) > 0)
        /\ ret.feedback = IF Len(user_df.rows) > 0
                          THEN [msg |-> "correct"] ELSE [msg |-> "no_result"]
        /\ answer_execs = 0
        /\ compare_calls = 0

\* C8: save_submission is called exactly once per call, with the verdict's
\* correctness flag and feedback, and a row that reaches the store carries them.
C8_PersistedOnceAsReturned ==
    /\ Len(saved) <= 1
    /\ NumStoredRows <= Len(saved)
    /\ pc = "returned" =>
          /\ Len(saved) = 1
          /\ saved[1].is_correct = ret.is_correct
          /\ saved[1].feedback = ret.feedback
          /\ \A row \in StoredRows :
                /\ row.is_correct = ret.is_correct
                /\ row.feedback = ret.feedback
                /\ row.problem_id = problem_id
                /\ row.sql_text = sql

\* C8 witness: a compared, correct verdict has been returned and its row stored.
C8_Witness ==
    /\ pc = "returned"
    /\ compare_calls = 1
    /\ ret.is_correct
    /\ NumStoredRows = 1

\* C9: a failed insert changes nothing of the verdict: the call returns, no
\* exception stems from save_submission, and the verdict is the one fixed
\* before persistence (the graded result, or the error verdict of the
\* statement that raised).
C9_PersistenceFailureAbsorbed ==
    /\ raised_in # "save_submission"
    /\ pc = "returned" =>
          IF exc = <<>>
          THEN /\ ret.is_correct = is_correct
               /\ ret.feedback = feedback
               /\ ret.diff = <<>>
               /\ feedback.msg # "sql_execution_error"
          ELSE /\ raised_in \in {"lookup", "user_sql", "reference_sql", "compare_results"}
               /\ ret.is_correct = FALSE
               /\ ret.feedback = [msg |-> "sql_execution_error", error |-> exc[1]]
               /\ ret.diff = <<exc[1]>>

\* C9 witness: the insert failed (save_submission was called, the store is
\* empty) and a graded verdict has been returned all the same.
C9_Witness ==
    /\ pc = "returned"
    /\ Len(saved) = 1
    /\ NumStoredRows = 0
    /\ exc = <<>>
    /\ ret.is_correct

\* C10: no exception leaves grade_submission, and a call that has not yet
\* returned its verdict is never stuck: the statement it is at can run (the
\* comparison at "compare" has no condition but its position). Statements only
\* move forward, so every call ends by returning a verdict.
C10_AlwaysReturnsVerdict ==
    /\ pc # "raised"
    /\ pc \in {"idle", "load", "exec_user", "fetch_user", "grade", "fetch_answer",
               "compare", "save", "measure", "except", "except_return", "returned"}
    /\ pc = "idle" => ENABLED Call
    /\ pc = "load" => ENABLED LoadProblem
    /\ pc = "exec_user" => ENABLED ConnectUser
    /\ pc = "fetch_user" => ENABLED ExecUser
    /\ pc = "grade" => ENABLED (ConnectAnswer \/ Fallback)
    /\ pc = "fetch_answer" => ENABLED ExecAnswer
    /\ pc = "save" => ENABLED Save
    /\ pc = "measure" => ENABLED Return
    /\ pc = "except" => ENABLED ExceptSave
    /\ pc = "except_return" => ENABLED ExceptReturn
    /\ pc = "returned" => ret.feedback.msg # "not_returned"

\* C10 witness: the reference SQL raised, the insert failed too, and the call
\* has returned a verdict.
C10_Witness ==
    /\ pc = "returned"
    /\ raised_in = "reference_sql"
    /\ Len(saved) = 1
    /\ NumStoredRows = 0
    /\ ret.feedback.msg = "sql_execution_error"

(***************************************************************************)
(* compare_results: failure handling, symmetry, sensitivity, messages,     *)
(* purity.                                                                 *)
(***************************************************************************)
\* The comparison of values cannot be completed: both count checks and the
\* name-set check pass and a frame carries the same label on two columns, so
\* that sort_values cannot tell which column the label names.
ComparisonCannotComplete(df1, df2) ==
    /\ Len(df1.columns) = Len(df2.columns)
    /\ Len(df1.rows) = Len(df2.rows)
    /\ LowerColumnSet(df1) = LowerColumnSet(df2)
    /\ (~IsInjective(df1.columns) \/ ~IsInjective(df2.columns))

\* C11: compare_results never raises; when the comparison of values cannot be
\* completed it returns equal = FALSE with the reason that names the failure.
C11_FailsClosedNeverRaises ==
    cmp_done =>
        /\ ~cmp_raised
        /\ ComparisonCannotComplete(cmp_user, cmp_answer) =>
              cmp_ret = [equal |-> FALSE,
                         reason |-> [msg |-> "compare_error", error |-> "label_not_unique"]]

C11_Witness ==
    /\ cmp_done
    /\ ComparisonCannotComplete(cmp_user, cmp_answer)
    /\ cmp_ret.reason.msg = "compare_error"

\* C12: the equal flag is symmetric: compare_results(A, B) and
\* compare_results(B, A) return the same flag (the reasons may differ).
C12_EqualIsSymmetric ==
    cmp_rev # NoReturn => cmp_rev.equal = cmp_ret.equal

C12_Witness ==
    /\ cmp_rev # NoReturn
    /\ cmp_user # cmp_answer
    /\ cmp_ret.equal
    /\ cmp_rev.equal

\* df with the cell of row i, column k replaced by v.
SetCell(df, i, k, v) == [df EXCEPT !.rows[i][k] = v]

\* df2 holds the records of df1 with exactly one cell given another value.
DifferInOneCell(df1, df2) ==
    \E i \in 1..Len(df1.rows), k \in 1..Len(df1.columns), v \in Values :
        /\ v # df1.rows[i][k]
        /\ SameRecordBag(SetCell(df1, i, k, v), df2)

\* C13: two tables with the same number of columns, the same lower-cased
\* column names and the same number of rows whose row multisets differ in
\* exactly one cell value compare unequal.
C13_OneCellDifferenceDetected ==
    (/\ cmp_done
     /\ Len(cmp_user.columns) = Len(cmp_answer.columns)
     /\ Len(cmp_user.rows) = Len(cmp_answer.rows)
     /\ DistinctLower(cmp_user)
     /\ DistinctLower(cmp_answer)
     /\ LowerColumnSet(cmp_user) = LowerColumnSet(cmp_answer)
     /\ DifferInOneCell(cmp_user, cmp_answer))
    => ~cmp_ret.equal

C13_Witness ==
    /\ cmp_done
    /\ Len(cmp_user.columns) = 2
    /\ Len(cmp_user.rows) = 2
    /\ cmp_user.columns # cmp_answer.columns
    /\ DistinctLower(cmp_user)
    /\ DistinctLower(cmp_answer)
    /\ LowerColumnSet(cmp_user) = LowerColumnSet(cmp_answer)
    /\ DifferInOneCell(cmp_user, cmp_answer)
    /\ cmp_ret = [equal |-> FALSE, reason |-> [msg |-> "values_differ"]]

\* C14: when the column counts and the row counts match and the lower-cased
\* name sets differ, the result is equal = FALSE and the reason names the
\* columns missing from the submission (reference names minus submitted
\* names) and those only the submission has (submitted minus reference).
C14_NameMismatchNamesBothSides ==
    (/\ cmp_done
     /\ Len(cmp_user.columns) = Len(cmp_answer.columns)
     /\ Len(cmp_user.rows) = Len(cmp_answer.rows)
     /\ LowerColumnSet(cmp_user) # LowerColumnSet(cmp_answer))
    => /\ ~cmp_ret.equal
       /\ cmp_ret.reason =
            [msg     |-> "column_names_differ",
             missing |-> LowerColumnSet(cmp_answer) \ LowerColumnSet(cmp_user),
             extra   |-> LowerColumnSet(cmp_user) \ LowerColumnSet(cmp_answer)]

C14_Witness ==
    /\ cmp_done
    /\ Len(cmp_user.columns) = 2
    /\ Len(cmp_user.rows) = Len(cmp_answer.rows)
    /\ cmp_ret.reason.msg = "column_names_differ"
    /\ cmp_ret.reason.missing = {"b"}
    /\ cmp_ret.reason.extra = {}

\* The message tags compare_results can return, none of them empty.
ReasonTags == {"column_count_differs", "row_count_differs", "column_names_differ",
               "correct", "values_differ", "compare_error"}

\* C17: every result of compare_results carries a non-empty reason, and the
\* reason is the success message exactly when equal is TRUE.
C17_ReasonPresentSuccessIffEqual ==
    cmp_done =>
        /\ cmp_ret.reason.msg \in ReasonTags
        /\ cmp_ret.reason.msg # ""
        /\ cmp_ret.equal <=> (cmp_ret.reason = [msg |-> "correct"])

C17_Witness ==
    /\ cmp_done
    /\ ~cmp_ret.equal
    /\ cmp_ret.reason.msg = "values_differ"
    /\ Len(cmp_user.rows) = 1

\* C20: compare_results is pure: a second call on the same pair (made on the
\* two frames as the first call left them) returns the same (equal, reason)
\* pair, and the call leaves both frames as they were (same columns, names,
\* row order and values).
C20_PureCall ==
    cmp_again # NoReturn =>
        /\ cmp_again = cmp_ret
        /\ cmp_user_after = cmp_user
        /\ cmp_answer_after = cmp_answer

C20_Witness ==
    /\ cmp_again # NoReturn
    /\ cmp_ret.equal
    /\ SortValues(cmp_user, cmp_user.columns) # cmp_user
    /\ LowerColumns(cmp_user) # cmp_user
    /\ SortValues(cmp_answer, cmp_answer.columns) # cmp_answer
    /\ LowerColumns(cmp_answer) # cmp_answer
    /\ cmp_user_after = cmp_user
    /\ cmp_answer_after = cmp_answer

(***************************************************************************)
(* grade_submission: outcomes, the diff field, connections.                *)
(***************************************************************************)
\* EXECUTION_ERROR: an execution raised and the handler built the verdict.
ExecutionErrorOutcome ==
    /\ exc # <<>>
    /\ raised_in \in {"user_sql", "reference_sql"}
    /\ compare_calls = 0
    /\ ~ret.is_correct
    /\ ret.feedback = [msg |-> "sql_execution_error", error |-> exc[1]]

\* COMPARED: a reference was found, both queries ran and the verdict is the
\* pair compare_results returned for the two results.
ComparedOutcome ==
    /\ exc = <<>>
    /\ ~NoReference
    /\ answer_execs = 1
    /\ compare_calls = 1
    /\ user_df \in ResultTables
    /\ answer_df \in ResultTables
    /\ ret.is_correct = compare_results(user_df, answer_df).equal
    /\ ret.feedback = compare_results(user_df, answer_df).reason

\* UNGRADED_FALLBACK: no reference; the verdict follows the row-count rule.
UngradedFallbackOutcome ==
    /\ exc = <<>>
    /\ NoReference
    /\ answer_execs = 0
    /\ compare_calls = 0
    /\ user_df \in ResultTables
    /\ ret.is_correct = (Len(user_df.rows) > 0)
    /\ ret.feedback = IF Len(user_df.rows) > 0 THEN [msg |-> "correct"]
                                               ELSE [msg |-> "no_result"]

\* C15 (as claimed): every grade_submission call ends in exactly one of the
\* outcomes EXECUTION_ERROR (an execution raised), COMPARED and
\* UNGRADED_FALLBACK, and nothing is returned to the caller before that.
C15_ExactlyOneOfThreeOutcomes ==
    /\ pc # "raised"
    /\ pc # "returned" => ret = NoResponse
    /\ pc = "returned" =>
          \/ ExecutionErrorOutcome /\ ~ComparedOutcome /\ ~UngradedFallbackOutcome
          \/ ~ExecutionErrorOutcome /\ ComparedOutcome /\ ~UngradedFallbackOutcome
          \/ ~ExecutionErrorOutcome /\ ~ComparedOutcome /\ UngradedFallbackOutcome

\* C16: diff is None on every COMPARED and every UNGRADED_FALLBACK verdict,
\* and is the raw error text on every verdict produced after an execution
\* raised.
C16_DiffOnlyOnExceptionalPaths ==
    pc = "returned" =>
        /\ (ComparedOutcome \/ UngradedFallbackOutcome) => ret.diff = <<>>
        /\ exc # <<>> => ret.diff = <<exc[1]>>
        /\ exc = <<>> => ret.diff = <<>>

C16_Witness ==
    /\ pc = "returned"
    /\ raised_in = "reference_sql"
    /\ ret.diff = <<"attribute_error">>

\* C18: each of the two executor calls runs on a connection of its own and
\* holds no other; the connection is released when its block ends, normally
\* or by raising, so the submitted-SQL connection is gone before the
\* reference-SQL one is acquired, and none is held at any other statement,
\* the return included.
C18_ConnectionsScoped ==
    /\ pc = "fetch_user" => held = {"user_sql"}
    /\ pc = "fetch_answer" => held = {"reference_sql"}
    /\ pc \notin {"fetch_user", "fetch_answer"} => held = {}

C18_Witness ==
    /\ pc = "returned"
    /\ raised_in = "reference_sql"
    /\ exc \in {<<"syntax_error">>, <<"attribute_error">>}
    /\ answer_execs = 1
    /\ held = {}

(***************************************************************************)
(* grade_submission: concurrent calls.                                     *)
(***************************************************************************)
\* The verdict grade_submission returns for the arguments a when it is the
\* only call running: its statements one after the other over the problem
\* files and the store.
VerdictAlone(a) ==
    LET lo  == load_problem_with_answer(a.problem_id, con_file[a.data_type])
        ans == AnswerSqlOf(IF lo.ok THEN lo.problem ELSE <<>>)
        uo  == StoreOutcome(con_db, Statement(a.sql))
        ao  == StoreAnswerOutcome(con_db, ans)
        err(e) == [is_correct |-> FALSE,
                   feedback |-> [msg |-> "sql_execution_error", error |-> e],
                   execution_time_ms |-> 0, diff |-> <<e>>]
    IN  IF ~lo.ok THEN err(lo.error)
        ELSE IF ~uo.ok THEN err(uo.error)
        ELSE IF Truthy(ans)
        THEN IF ~ao.ok THEN err(ao.error)
             ELSE IF compare_results_raises(uo.df, ao.df) THEN err(ErrAttribute)
             ELSE [is_correct |-> compare_results(uo.df, ao.df).equal,
                   feedback |-> compare_results(uo.df, ao.df).reason,
                   execution_time_ms |-> 0, diff |-> <<>>]
        ELSE [is_correct |-> Len(uo.df.rows) > 0,
              feedback |-> IF Len(uo.df.rows) > 0 THEN [msg |-> "correct"]
                                                  ELSE [msg |-> "no_result"],
              execution_time_ms |-> 0, diff |-> <<>>]

\* C19: two grade_submission calls interleaved in any order over an unchanged
\* store and problem file do not interfere: each call returns the verdict it
\* returns when run alone on the same inputs.
C19_ConcurrentCallsDoNotInterfere ==
    \A c \in Calls : con_pc[c] = "returned" => con_ret[c] = VerdictAlone(con_args[c])

C19_Witness ==
    /\ \A c \in Calls : con_pc[c] = "returned"
    /\ con_args[1].data_type = con_args[2].data_type
    /\ con_ret[1].feedback.msg = "sql_execution_error"
    /\ con_ret[2].is_correct
    /\ Len(submissions[TableName(con_args[1].data_type)]) = 2
    /\ submissions[TableName(con_args[1].data_type)][1].is_correct

(***************************************************************************)
(* compare_results: permuted rows, no false positives.                     *)
(***************************************************************************)
\* The two frames list their columns in the same order, names equal up to
\* letter case.
SameColumnOrder(df1, df2) ==
    /\ Len(df1.columns) = Len(df2.columns)
    /\ \A k \in 1..Len(df1.columns) : Lower(df1.columns[k]) = Lower(df2.columns[k])

\* How many rows of df are the tuple row.
RowCount(df, row) == Cardinality({i \in 1..Len(df.rows) : df.rows[i] = row})

\* The rows of df2 are a permutation of the rows of df1.
RowsPermuted(df1, df2) ==
    /\ Len(df1.rows) = Len(df2.rows)
    /\ \A i \in 1..Len(df1.rows) : RowCount(df1, df1.rows[i]) = RowCount(df2, df1.rows[i])

\* Each column holds the same type of value in both frames.
SameColumnTypes(df1, df2) == df1.dtypes = df2.dtypes

\* No label is carried by two columns of the frame.
DistinctLabels(df) == IsInjective(df.columns)

\* C21 (as claimed): when the two tables list their columns in the same
\* order (names equal up to letter case) and the rows of one are a
\* permutation of the rows of the other, the result is equal = TRUE; zero
\* rows on both sides and duplicate rows present equally often on both sides
\* are included.
C21_PermutedRowsSameColumnOrderEqual ==
    (cmp_done /\ SameColumnOrder(cmp_user, cmp_answer) /\ RowsPermuted(cmp_user, cmp_answer))
    => cmp_ret = [equal |-> TRUE, reason |-> [msg |-> "correct"]]

\* C21 (amended): when, in addition, no table carries a label on two of its
\* columns and each column holds the same type of value (integer or float)
\* in both tables, the result is equal = TRUE; zero rows on both sides and
\* duplicate rows present equally often on both sides are included.
C21_DistinctLabelsSameTypesEqual ==
    (/\ cmp_done
     /\ SameColumnOrder(cmp_user, cmp_answer)
     /\ RowsPermuted(cmp_user, cmp_answer)
     /\ DistinctLabels(cmp_user)
     /\ DistinctLabels(cmp_answer)
     /\ SameColumnTypes(cmp_user, cmp_answer))
    => cmp_ret = [equal |-> TRUE, reason |-> [msg |-> "correct"]]

C21_Witness ==
    /\ cmp_done
    /\ SameColumnOrder(cmp_user, cmp_answer)
    /\ RowsPermuted(cmp_user, cmp_answer)
    /\ DistinctLabels(cmp_user)
    /\ DistinctLabels(cmp_answer)
    /\ SameColumnTypes(cmp_user, cmp_answer)
    /\ cmp_user.dtypes[1] = "float64"
    /\ cmp_user.columns # cmp_answer.columns
    /\ cmp_user.rows # cmp_answer.rows
    /\ Len(cmp_user.rows) = 3
    /\ \E i, j \in 1..3 : i # j /\ cmp_user.rows[i] = cmp_user.rows[j]
    /\ cmp_ret.equal

\* C22: no false positives: whenever the result is equal = TRUE the two
\* tables have the same column count, the same row count, the same
\* lower-cased column-name set and, each row read as a mapping from
\* lower-cased column name to value, the same multiset of rows. (The mapping
\* exists when the lower-cased names of a table are pairwise distinct.)
C22_NoFalsePositives ==
    (cmp_done /\ cmp_ret.equal) =>
        /\ Len(cmp_user.columns) = Len(cmp_answer.columns)
        /\ Len(cmp_user.rows) = Len(cmp_answer.rows)
        /\ LowerColumnSet(cmp_user) = LowerColumnSet(cmp_answer)
        /\ DistinctLower(cmp_user) => (DistinctLower(cmp_answer) /\ SameRecordBag(cmp_user, cmp_answer))

C22_Witness ==
    /\ cmp_done
    /\ cmp_ret.equal
    /\ DistinctLower(cmp_user)
    /\ Len(cmp_user.columns) = 2
    /\ Len(cmp_user.rows) = 2
    /\ cmp_user.columns[1] = cmp_answer.columns[2]
    /\ cmp_user.rows # cmp_answer.rows

(***************************************************************************)
(* grade_submission: the date of the lookup and the date persisted.        *)
(***************************************************************************)
\* C23 (as claimed): the date that selects the problem file of the reference
\* lookup is the date persisted as the submission's session_date, also when
\* the calendar date changes while the call is in progress.
C23_LookupDateIsSessionDate ==
    \A row \in StoredRows : row.session_date = lookup_path[2]

(***************************************************************************)
(* run_daily_problem_generation: one generation per day.                   *)
(***************************************************************************)
\* C24 (as claimed): for any date the PA problem generation is invoked at
\* most once, under every interleaving of the startup run and the cron run,
\* because a run generates only when the day's file does not exist.
C24_GeneratedAtMostOncePerDay ==
    \A d \in Days : sch_pa_invoked[d] <= 1

(***************************************************************************)
(* run_daily_pipeline: one session record per day.                         *)
(***************************************************************************)
\* The rows of daily_sessions recorded for day d.
SessionsOf(d) == {i \in 1..Len(pipe_sessions) : pipe_sessions[i].session_date = d}

\* C25: after any number of sequential runs on the same date there is at most
\* one daily_sessions record for that date; a run that finds today's session
\* recorded generates no data, generates no problems and inserts nothing.
C25_OneSessionPerDay ==
    /\ \A d \in Days : Cardinality(SessionsOf(d)) <= 1
    /\ pipe_run.found =>
          /\ pipe_run.data_gens = 0
          /\ pipe_run.problem_gens = 0
          /\ pipe_run.inserts = 0
          /\ pipe_pc = "idle"

C25_Witness ==
    /\ pipe_runs = 3
    /\ pipe_pc = "idle"
    /\ pipe_run.found
    /\ pipe_today = 2
    /\ Cardinality(SessionsOf(1)) = 1
    /\ Cardinality(SessionsOf(2)) = 1

\* C26: when the problem generation fails inside a run, the run still
\* inserts today's session record, with status GENERATED and a null
\* problem_set_path, and no later run of the same date generates problems
\* again: it returns at the lookup (or its preparation raised before it).
C26_FailedGenerationStillRecorded ==
    /\ (pipe_pc = "idle" /\ pipe_run.gen_failed) =>
          /\ pipe_run.inserts = 1
          /\ ~pipe_run.raised =>
                \E i \in SessionsOf(pipe_today) :
                    pipe_sessions[i] = [session_date |-> pipe_today,
                                        problem_set_path |-> <<>>,
                                        status |-> "GENERATED"]
    /\ (\E i \in SessionsOf(pipe_today) : pipe_sessions[i].problem_set_path = <<>>) =>
          /\ pipe_pc \notin {"gen_data", "gen_problems", "insert"}
          /\ pipe_pc = "idle" =>
                \/ pipe_run.found
                \/ pipe_run.gen_failed /\ pipe_run.inserts = 1
                \/ pipe_run.raised /\ pipe_run.problem_gens = 0 /\ pipe_run.inserts = 0

C26_Witness ==
    /\ pipe_runs = 3
    /\ pipe_pc = "idle"
    /\ pipe_run.found
    /\ pipe_run.problem_gens = 0
    /\ Len(pipe_sessions) = 1
    /\ pipe_sessions[1] = [session_date |-> 2, problem_set_path |-> <<>>, status |-> "GENERATED"]
    /\ pipe_today = 2

(***************************************************************************)
(* submit_practice: the order of the two executions and the responses.     *)
(***************************************************************************)
\* execute_sql returned a result that reports a failure.
ExecutionFailed(result) == "success" \in DOMAIN result /\ ~result.success

\* The request fields whose SQL was handed to execute_sql, in order.
ExecutedFields == [i \in 1..Len(prac_executed) |-> prac_executed[i][1]]

\* C27: submit_practice executes the reference SQL before the submitted SQL;
\* when the reference SQL fails the response has success false, is_correct
\* false and the reference-error message, and the submitted SQL is never
\* executed; when only the submitted SQL fails the response has success true
\* and is_correct false; a score other than zero comes only with is_correct
\* true.
C27_ReferenceFirstThenSubmitted ==
    /\ ExecutedFields \in {<<>>, <<"answer_sql">>, <<"answer_sql", "sql">>}
    /\ \A i \in 1..Len(prac_executed) :
          /\ prac_executed[i][2] = prac_request[prac_executed[i][1]]
          /\ prac_executed[i][3] = prac_request.data_type
    /\ ExecutionFailed(prac_expected) =>
          /\ prac_pc = "done"
          /\ prac_ret.success = FALSE
          /\ prac_ret.is_correct = FALSE
          /\ prac_ret.message.msg = "answer_sql_error"
          /\ ExecutedFields = <<"answer_sql">>
    /\ ("success" \in DOMAIN prac_expected /\ prac_expected.success /\ ExecutionFailed(prac_user)) =>
          /\ prac_pc = "done"
          /\ prac_ret.success = TRUE
          /\ prac_ret.is_correct = FALSE
    /\ ("score" \in DOMAIN prac_ret /\ prac_ret.score # 0) => prac_ret.is_correct = TRUE

C27_Witness ==
    /\ prac_pc = "done"
    /\ ExecutionFailed(prac_expected)
    /\ "error" \notin DOMAIN prac_expected
    /\ prac_request.sql # prac_request.answer_sql
    /\ prac_executed = <<<<"answer_sql", prac_request.answer_sql, "stream">>>>
    /\ prac_ret = [success |-> FALSE, is_correct |-> FALSE,
                   message |-> [msg |-> "answer_sql_error", error |-> "unknown_error"]]

====
